---- MODULE Spec2Model ----
(***************************************************************************)
(* Session-context comparison of the MagicAuth SDK (src/src/index.ts):     *)
(* compare.ipAddresses and compare.userAgents, with the parts of the `ip`  *)
(* and `ua-parser-js` packages they call.                                  *)
(*                                                                         *)
(* A JavaScript string is a sequence of one-character strings, so that     *)
(* splitting, pattern matching and number parsing are computed, not        *)
(* assumed.  A call either returns a value or throws:                      *)
(*   [kind |-> "return", value |-> v]   or   [kind |-> "throw", value |-> m]*)
(***************************************************************************)
EXTENDS Integers, Sequences, FiniteSets, TLC

VARIABLES
    ipRelease,      \* release of the `ip` package the install resolved (^1.1.5)
    request_ip,     \* compare.ipAddresses: first argument of the last call
    session_ip,     \* compare.ipAddresses: second argument of the last call
    ip_outcome,     \* outcome of the last compare.ipAddresses call
    request_user_agent,     \* compare.userAgents: first argument
    session_user_agent,     \* compare.userAgents: second argument
    ua_outcome,     \* outcome of the last compare.userAgents call
    log_level,      \* level of the module's logger (LOG_LEVEL or 'fatal')
    trace,          \* lines the logger has written, in order
    history,        \* the comparisons made so far: arguments and outcome
    sdk_build,      \* implementation loaded: the ES module or the CommonJS one
    base_url,       \* the API_BASE_URL property that Collection reads
    export_url,     \* the export named API_BASE_URL as an importer reads it
    assignment,     \* the last assignment to a base URL property, its outcome
    instances,      \* the Collection instances constructed, in order
    pending,        \* calls of Collection methods awaiting their response
    sdk_outcome,    \* the last settled call: request, response and outcome
    server_sessions,    \* service side: the sessions made, with their context
    server_credentials  \* service side: the credentials made, with their password

vars == <<ipRelease, request_ip, session_ip, ip_outcome,
          request_user_agent, session_user_agent, ua_outcome,
          log_level, trace, history,
          sdk_build, base_url, export_url, assignment, instances, pending,
          sdk_outcome, server_sessions, server_credentials>>

ipVars == <<ipRelease, request_ip, session_ip, ip_outcome>>
uaVars == <<request_user_agent, session_user_agent, ua_outcome>>
logVars == <<log_level, trace>>
urlVars == <<base_url, export_url, assignment>>
httpVars == <<pending, sdk_outcome, server_sessions, server_credentials>>
sdkVars == <<sdk_build, urlVars, instances, httpVars>>

(***************************************************************************)
(* Outcomes of a call.                                                     *)
(***************************************************************************)
NoCall == [kind |-> "none", value |-> "none"]
Return(v) == [kind |-> "return", value |-> v]
Throw(m) == [kind |-> "throw", value |-> m]

(***************************************************************************)
(* The module's logger (src/src/index.ts:13-15): @whi/stdlog at the level  *)
(* of LOG_LEVEL, 'fatal' when it is not set.  A call below the level       *)
(* writes nothing; no call throws or returns a value.                      *)
(***************************************************************************)
LogLevels == <<"fatal", "error", "warn", "normal", "info", "debug", "silly">>

LevelRank(level) == CHOOSE i \in 1..Len(LogLevels) : LogLevels[i] = level

\* log.debug(format, ...args): the line it writes, if any
debug(level, line) ==
    [kind |-> "return", value |-> "void",
     lines |-> IF LevelRank(level) >= LevelRank("debug") THEN <<line>> ELSE <<>>]

\* a slip in which the comparison is made only while the logger is silent,
\* and a call that wrote its line answers false
Then_VerdictOnlyWhenSilent(first, rest) ==
    IF first.kind = "throw" THEN Throw(first.value)
    ELSE IF first.lines # <<>> THEN Return(FALSE)
    ELSE rest

\* statement `first;` followed by `return rest`
Then(first, rest) ==
    IF first.kind = "throw" THEN Throw(first.value)
    ELSE rest

(***************************************************************************)
(* The module after it is loaded (src/src/index.ts:272-277 for the ES      *)
(* module, 484-492 for the CommonJS one).  In the ES module config is an   *)
(* object of its own and the export API_BASE_URL a constant copied from it *)
(* once; in the CommonJS module the exported object holds the one property *)
(* that Collection reads.  The compiler either erases the property         *)
(* declarations of the classes ("esm") or emits them as class fields       *)
(* ("esm_define"), by its target and useDefineForClassFields settings.     *)
(***************************************************************************)
SdkBuilds == {"esm", "esm_define", "cjs"}

IsEsm(build) == build \in {"esm", "esm_define"}

DefaultUrl == "https://vault.magicauth.ca"

NoAssignment == [via |-> "none", url |-> DefaultUrl, outcome |-> NoCall]

Loaded(build) ==
    /\ sdk_build = build
    /\ base_url = DefaultUrl
    /\ export_url = DefaultUrl
    /\ assignment = NoAssignment
    /\ instances = <<>>
    /\ pending = <<>>
    /\ sdk_outcome = NoCall
    /\ server_sessions = {}
    /\ server_credentials = {}
    /\ history = <<>>

\* base URLs a program sets: the default and the one of the documentation
LocalUrl == "http://localhost:2884"
BaseUrls == {DefaultUrl, LocalUrl}

\* config.API_BASE_URL = url.  The CommonJS module exports no config object:
\* the assignment throws a TypeError there.
AssignConfig(url) ==
    /\ IF IsEsm(sdk_build)
       THEN /\ base_url' = url
            /\ assignment' = [via |-> "config", url |-> url, outcome |-> Return(url)]
       ELSE /\ base_url' = base_url
            /\ assignment' = [via |-> "config", url |-> url,
                              outcome |-> Throw("TypeError")]
    /\ UNCHANGED <<ipVars, uaVars, logVars, history, sdk_build, export_url,
                   instances, httpVars>>

\* sdk.API_BASE_URL = url.  In the CommonJS module this is the property that
\* Collection reads.  The export of the ES module is a constant binding
\* (line 277): the assignment throws a TypeError and changes nothing.
AssignExport(url) ==
    /\ \/ /\ sdk_build = "cjs"
          /\ base_url' = url
          /\ export_url' = url
          /\ assignment' = [via |-> "export", url |-> url, outcome |-> Return(url)]
       \/ /\ IsEsm(sdk_build)
          /\ base_url' = base_url
          /\ export_url' = export_url
          /\ assignment' = [via |-> "export", url |-> url,
                            outcome |-> Throw("TypeError")]
    /\ UNCHANGED <<ipVars, uaVars, logVars, history, sdk_build, instances, httpVars>>

(***************************************************************************)
(* Collection (src/src/index.ts:60-176, 302-405) and the client of         *)
(* @whi/http it creates.                                                   *)
(***************************************************************************)
MaxCollections == 1

CollectionIds == {"Coll_1"}
AccessKeys == {"key_1", "key_2"}

NoHeader == "<none>"

\* a slip in which the headers option never reaches the client: every
\* request goes out anonymous
Client_HeadersDropped(base, authorization) ==
    [base |-> base,
     headers |-> [content_type |-> "application/json",
                  authorization |-> NoHeader]]

\* http_client.create(base, {headers})
Client(base, authorization) ==
    [base |-> base,
     headers |-> [content_type |-> "application/json",
                  authorization |-> authorization]]

\* new Collection(collection_id, access_key): the client is created once,
\* with the base URL of that moment; `built_after` notes the assignment that
\* preceded the construction and whether it was made or threw
Construct(collection_id, access_key) ==
    /\ Len(instances) < MaxCollections
    /\ instances' = Append(instances,
           [collection_id |-> collection_id,
            access_key |-> access_key,
            api |-> Client(base_url, "Authentic " \o access_key),
            built_after |-> [via |-> assignment.via, url |-> assignment.url,
                             made |-> assignment.outcome.kind = "return"]])
    /\ UNCHANGED <<ipVars, uaVars, logVars, history, sdk_build, urlVars, httpVars>>

(***************************************************************************)
(* Characters and JavaScript string primitives.                            *)
(***************************************************************************)
Digits == {"0", "1", "2", "3", "4", "5", "6", "7", "8", "9"}
HexLetters == {"a", "b", "c", "d", "e", "f", "A", "B", "C", "D", "E", "F"}

DigitChars == <<"0", "1", "2", "3", "4", "5", "6", "7", "8", "9">>
HexChars == <<"0", "1", "2", "3", "4", "5", "6", "7", "8", "9",
              "a", "b", "c", "d", "e", "f">>

IsDigit(c) == c \in Digits
IsHexDigit(c) == c \in Digits \cup HexLetters

\* value of a digit in a radix up to 16 (callers test the character first)
HexVal(c) ==
    CASE c \in {"a", "A"} -> 10
      [] c \in {"b", "B"} -> 11
      [] c \in {"c", "C"} -> 12
      [] c \in {"d", "D"} -> 13
      [] c \in {"e", "E"} -> 14
      [] c \in {"f", "F"} -> 15
      [] c = "0" -> 0 [] c = "1" -> 1 [] c = "2" -> 2 [] c = "3" -> 3
      [] c = "4" -> 4 [] c = "5" -> 5 [] c = "6" -> 6 [] c = "7" -> 7
      [] c = "8" -> 8 [] c = "9" -> 9

\* String.prototype.split(sep) for a one-character separator: the pieces of
\* s from position i on, cur being the piece begun before i
RECURSIVE SplitFrom(_, _, _, _)
SplitFrom(s, sep, i, cur) ==
    IF i > Len(s) THEN <<cur>>
    ELSE IF s[i] = sep THEN <<cur>> \o SplitFrom(s, sep, i + 1, <<>>)
    ELSE SplitFrom(s, sep, i + 1, Append(cur, s[i]))

Split(s, sep) == SplitFrom(s, sep, 1, <<>>)

\* Array.prototype.join(sep)
RECURSIVE Join(_, _)
Join(parts, sep) ==
    IF Len(parts) = 0 THEN <<>>
    ELSE IF Len(parts) = 1 THEN parts[1]
    ELSE parts[1] \o <<sep>> \o Join(Tail(parts), sep)

NaN == -1

\* the value of the digits of s up to position n, in the radix
RECURSIVE DigitsValue(_, _, _)
DigitsValue(s, n, radix) ==
    IF n = 0 THEN 0 ELSE DigitsValue(s, n - 1, radix) * radix + HexVal(s[n])

\* length of the longest prefix of s made of digits of the radix
PrefixLen(s, radix) ==
    IF \A i \in 1..Len(s) : IsHexDigit(s[i]) /\ HexVal(s[i]) < radix THEN Len(s)
    ELSE (CHOOSE i \in 1..Len(s) :
              /\ ~(IsHexDigit(s[i]) /\ HexVal(s[i]) < radix)
              /\ \A j \in 1..(i - 1) : IsHexDigit(s[j]) /\ HexVal(s[j]) < radix) - 1

\* parseInt(s, radix) of a text without sign, blanks or "0x": the value of
\* the longest prefix of digits of the radix, NaN when there is none
ParseInt(s, radix) ==
    IF PrefixLen(s, radix) = 0 THEN NaN ELSE DigitsValue(s, PrefixLen(s, radix), radix)

\* Number.prototype.toString(10) of a non-negative integer
RECURSIVE Dec(_)
Dec(n) ==
    IF n < 10 THEN <<DigitChars[n + 1]>>
    ELSE Append(Dec(n \div 10), DigitChars[(n % 10) + 1])

\* Buffer.prototype.toString('hex') of two bytes
Hex2Bytes(b1, b2) ==
    <<HexChars[(b1 \div 16) + 1], HexChars[(b1 % 16) + 1],
      HexChars[(b2 \div 16) + 1], HexChars[(b2 % 16) + 1]>>

StartsWith(s, p) == Len(s) >= Len(p) /\ SubSeq(s, 1, Len(p)) = p

\* the value of the digits of s up to position n, modulo m
RECURSIVE DigitsValueMod(_, _, _, _)
DigitsValueMod(s, n, radix, m) ==
    IF n = 0 THEN 0
    ELSE (DigitsValueMod(s, n - 1, radix, m) * radix + HexVal(s[n])) % m

\* parseInt(s, radix) reduced modulo m, for callers that keep only low bits
\* (`& 0xff`, `>> 8 & 0xff`); NaN behaves as 0 under those bit operations
ParseIntMod(s, radix, m) == DigitsValueMod(s, PrefixLen(s, radix), radix, m)

(***************************************************************************)
(* Package `ip` (^1.1.5), imported at src/src/index.ts:6.                  *)
(***************************************************************************)

\* ip.isV4Format: /^(\d{1,3}\.){3,3}\d{1,3}$/
IsOctetText(p) == Len(p) \in 1..3 /\ \A i \in 1..Len(p) : IsDigit(p[i])

IsQuadParts(parts) == Len(parts) = 4 /\ \A k \in 1..4 : IsOctetText(parts[k])

isV4Format(s) == IsQuadParts(Split(s, "."))

\* end positions of \d{1,3} started after position p
DigitRunEnds(s, p) ==
    {p + k : k \in {k \in 1..3 : p + k <= Len(s)
                     /\ \A j \in (p + 1)..(p + k) : IsDigit(s[j])}}

\* end positions of \d{1,3}\. started after a position of P
DottedRunEnds(s, P) ==
    {q + 1 : q \in {q \in UNION {DigitRunEnds(s, p) : p \in P} :
                      q + 1 <= Len(s) /\ s[q + 1] = "."}}

\* end positions of (\d{1,3}\.){3}(\d{1,3}){1} started after position i
QuadEnds(s, i) ==
    UNION {DigitRunEnds(s, p) :
             p \in DottedRunEnds(s, DottedRunEnds(s, DottedRunEnds(s, {i})))}

\* end positions of ([0-9a-f]){0,4} started after position p
HexRunEnds(s, p) ==
    {p + h : h \in {h \in 0..4 : p + h <= Len(s)
                     /\ \A j \in (p + 1)..(p + h) : IsHexDigit(s[j])}}

\* end positions of :{0,2} started after position p
ColonRunEnds(s, p) ==
    {p + c : c \in {c \in 0..2 : p + c <= Len(s)
                     /\ \A j \in (p + 1)..(p + c) : s[j] = ":"}}

\* end positions of one group
\*   ((\d{1,3}\.){3}(\d{1,3}){1})?([0-9a-f]){0,4}:{0,2}
GroupEnds(s, i) ==
    UNION {ColonRunEnds(s, h) :
             h \in UNION {HexRunEnds(s, q) : q \in {i} \cup QuadEnds(s, i)}}

\* end positions of up to k more groups started after a position of P
RECURSIVE GroupsEnds(_, _, _)
GroupsEnds(s, P, k) ==
    IF k = 0 THEN P
    ELSE GroupsEnds(s, P \cup UNION {GroupEnds(s, p) : p \in P}, k - 1)

\* whether the text ends at one of the positions, or "::" after one of them
EndsAt(s, ends) ==
    \/ Len(s) \in ends
    \/ /\ Len(s) >= 2 /\ (Len(s) - 2) \in ends
       /\ s[Len(s) - 1] = ":" /\ s[Len(s)] = ":"

\* ip.isV6Format:
\*   /^(::)?(((\d{1,3}\.){3}(\d{1,3}){1})?([0-9a-f]){0,4}:{0,2}){1,8}(::)?$/i
isV6Format(s) ==
    EndsAt(s, GroupsEnds(s,
                 UNION {GroupEnds(s, p) :
                          p \in {0} \cup (IF StartsWith(s, <<":", ":">>) THEN {2} ELSE {})},
                 7))

\* a slip of the byte conversion: an octet with a leading zero read as octal
Bytes4_LeadingZeroOctal(parts) ==
    [j \in 1..4 |-> IF Len(parts[j]) > 1 /\ parts[j][1] = "0"
                    THEN ParseIntMod(parts[j], 8, 256)
                    ELSE ParseIntMod(parts[j], 10, 256)]

\* the bytes of a dotted quad: parseInt(byte, 10) & 0xff
Bytes4(parts) == [j \in 1..4 |-> ParseIntMod(parts[j], 10, 256)]

InsertAt(secs, at, x) == SubSeq(secs, 1, at) \o <<x>> \o SubSeq(secs, at + 1, Len(secs))

\* the loop of ip.toBuffer that rewrites an embedded dotted quad as two hex
\* sections: k is the loop index, v4Buffer the quad's bytes (<<>> before one
\* is met); v4Buffer is a `var`, so it stays set for the later iterations
RECURSIVE EmbedV4(_, _, _)
EmbedSecondHalf(secs, k, v4Buffer) ==
    IF k + 1 < 8
    THEN EmbedV4(InsertAt(secs, IF k + 1 > Len(secs) THEN Len(secs) ELSE k + 1,
                          Hex2Bytes(v4Buffer[3], v4Buffer[4])),
                 k + 2, v4Buffer)
    ELSE EmbedV4(secs, k + 2, v4Buffer)

EmbedFirstHalf(secs, k, v4Buffer) ==
    EmbedSecondHalf([secs EXCEPT ![k + 1] = Hex2Bytes(v4Buffer[1], v4Buffer[2])],
                    k, v4Buffer)

EmbedV4(secs, k, v4Buffer) ==
    IF k >= Len(secs) THEN secs
    ELSE IF isV4Format(secs[k + 1])
         THEN EmbedFirstHalf(secs, k, Bytes4(Split(secs[k + 1], ".")))
    ELSE IF v4Buffer = <<>> THEN EmbedV4(secs, k + 1, v4Buffer)
    ELSE EmbedSecondHalf(secs, k, v4Buffer)

Zeros(n) == [j \in 1..n |-> <<"0">>]

\* index of the first empty section, Len(secs) + 1 when there is none
FirstEmpty(secs) ==
    IF \E k \in 1..Len(secs) : secs[k] = <<>>
    THEN CHOOSE k \in 1..Len(secs) :
             secs[k] = <<>> /\ \A j \in 1..(k - 1) : secs[j] # <<>>
    ELSE Len(secs) + 1

\* the padding of ip.toBuffer: expand the elided run of zero sections
PadSections(secs) ==
    IF secs[1] = <<>> THEN
        IF Len(secs) < 8 THEN Zeros(8 - Len(secs)) \o secs ELSE secs
    ELSE IF secs[Len(secs)] = <<>> THEN
        IF Len(secs) < 8 THEN secs \o Zeros(8 - Len(secs)) ELSE secs
    ELSE IF Len(secs) < 8 THEN
        SubSeq(secs, 1, FirstEmpty(secs) - 1) \o Zeros(9 - Len(secs))
            \o SubSeq(secs, FirstEmpty(secs) + 1, Len(secs))
    ELSE secs

\* the 16 bytes of the sections: parseInt(section, 16), high byte, low byte;
\* a write past the end of the buffer is dropped
Bytes16(secs) ==
    [j \in 1..16 |->
        IF (j + 1) \div 2 > Len(secs) THEN 0
        ELSE IF j % 2 = 1 THEN ParseIntMod(secs[(j + 1) \div 2], 16, 65536) \div 256
        ELSE ParseIntMod(secs[j \div 2], 16, 65536) % 256]

\* ip.split(':', 8)
Split8(all) == SubSeq(all, 1, IF Len(all) > 8 THEN 8 ELSE Len(all))

\* ip.toBuffer(ip): 4 bytes for the IPv4 format, 16 for the IPv6 format,
\* and Error('Invalid ip address: ...') for anything else
toBuffer(addr) ==
    IF isV4Format(addr) THEN Return(Bytes4(Split(addr, ".")))
    ELSE IF isV6Format(addr)
         THEN Return(Bytes16(PadSections(EmbedV4(Split8(Split(addr, ":")), 0, <<>>))))
    ELSE Throw("Invalid ip address")

\* ip.isEqual across the families: a is IPv4, b is IPv6
V4EqualsV6(v4, v6) ==
    /\ \A i \in 1..10 : v6[i] = 0
    /\ (v6[11] * 256 + v6[12]) \in {0, 65535}
    /\ \A i \in 1..4 : v4[i] = v6[i + 12]

\* the comparison of ip.isEqual on the two buffers
BuffersEqual(ba, bb) ==
    IF ba.kind = "throw" THEN ba
    ELSE IF bb.kind = "throw" THEN bb
    ELSE IF Len(ba.value) = Len(bb.value) THEN Return(ba.value = bb.value)
    ELSE IF Len(bb.value) = 4 THEN Return(V4EqualsV6(bb.value, ba.value))
    ELSE Return(V4EqualsV6(ba.value, bb.value))

\* ip.isEqual(a, b)
isEqual(a, b) == BuffersEqual(toBuffer(a), toBuffer(b))

\* the optional (::f{4}:) that the range patterns allow in front of a dotted
\* quad; fs is {"f", "F"} under the pattern's /i flag
StripMapped(s, fs) ==
    IF /\ Len(s) >= 7
       /\ s[1] = ":" /\ s[2] = ":" /\ s[7] = ":"
       /\ \A j \in 3..6 : s[j] \in fs
    THEN SubSeq(s, 8, Len(s)) ELSE s

\* the dotted part of the range patterns, on the parts between the dots
RangeParts(parts, first, seconds) ==
    /\ Len(parts) = 4
    /\ parts[1] = first
    /\ IF seconds = {} THEN IsOctetText(parts[2]) ELSE parts[2] \in seconds
    /\ IsOctetText(parts[3])
    /\ IsOctetText(parts[4])

\* /^(::f{4}:)?10\.([0-9]{1,3})\.([0-9]{1,3})\.([0-9]{1,3})$/i and its
\* siblings for 192.168, 172.16-31, 127 and 169.254
InRangePattern(s, first, seconds) ==
    RangeParts(Split(StripMapped(s, {"f", "F"}), "."), first, seconds)

\* a range one too wide at both ends: (1[5-9]|2\d|3[0-2])
Seconds172_OneTooWide ==
    { <<"1", "5">>, <<"1", "6">>, <<"1", "7">>, <<"1", "8">>, <<"1", "9">>,
      <<"2", "0">>, <<"2", "1">>, <<"2", "2">>, <<"2", "3">>, <<"2", "4">>,
      <<"2", "5">>, <<"2", "6">>, <<"2", "7">>, <<"2", "8">>, <<"2", "9">>,
      <<"3", "0">>, <<"3", "1">>, <<"3", "2">> }

\* (1[6-9]|2\d|30|31)
Seconds172 ==
    { <<"1", "6">>, <<"1", "7">>, <<"1", "8">>, <<"1", "9">>,
      <<"2", "0">>, <<"2", "1">>, <<"2", "2">>, <<"2", "3">>, <<"2", "4">>,
      <<"2", "5">>, <<"2", "6">>, <<"2", "7">>, <<"2", "8">>, <<"2", "9">>,
      <<"3", "0">>, <<"3", "1">> }

\* /^f[cd][0-9a-f]{2}:/i, /^fe80:/i, /^::1$/, /^::$/
InV6PrivatePattern(s) ==
    \/ /\ Len(s) >= 5
       /\ s[1] \in {"f", "F"}
       /\ s[2] \in {"c", "d", "C", "D"}
       /\ IsHexDigit(s[3]) /\ IsHexDigit(s[4])
       /\ s[5] = ":"
    \/ /\ Len(s) >= 5
       /\ s[1] \in {"f", "F"} /\ s[2] \in {"e", "E"}
       /\ s[3] = "8" /\ s[4] = "0" /\ s[5] = ":"
    \/ s = <<":", ":", "1">>
    \/ s = <<":", ":">>

\* the range patterns the releases share
InPrivatePatterns(addr) ==
    \/ InRangePattern(addr, <<"1", "0">>, {})
    \/ InRangePattern(addr, <<"1", "9", "2">>, {<<"1", "6", "8">>})
    \/ InRangePattern(addr, <<"1", "7", "2">>, Seconds172)
    \/ InRangePattern(addr, <<"1", "6", "9">>, {<<"2", "5", "4">>})
    \/ InV6PrivatePattern(addr)

\* ip.isPrivate of releases 1.1.5 to 1.1.8: pattern tests only
isPrivateLegacy(addr) ==
    \/ InRangePattern(addr, <<"1", "2", "7">>, {})
    \/ InPrivatePatterns(addr)

\* Number(s) for the strings ip.isLoopback hands it (no "." and no ":"):
\* empty is 0, decimal digits, 0x hex digits, anything else NaN
NumberOf(s) ==
    IF s = <<>> THEN 0
    ELSE IF \A i \in 1..Len(s) : IsDigit(s[i]) THEN ParseInt(s, 10)
    ELSE IF /\ Len(s) > 2 /\ s[1] = "0" /\ s[2] \in {"x", "X"}
            /\ \A i \in 3..Len(s) : IsHexDigit(s[i])
         THEN ParseInt(SubSeq(s, 3, Len(s)), 16)
    ELSE NaN

\* the four octets of a 32-bit value, in decimal, dotted
Octets(n) ==
    Join(<<Dec((n \div 16777216) % 256), Dec((n \div 65536) % 256),
           Dec((n \div 256) % 256), Dec(n % 256)>>, ".")

\* ip.fromLong(ipl); NaN shifts to 0
fromLong(ipl) == Octets(IF ipl = NaN THEN 0 ELSE ipl)

\* /^(::f{4}:)?127\.([0-9]{1,3})\.([0-9]{1,3})\.([0-9]{1,3})/ on the parts
\* between the dots: the pattern is open at the end
LoopbackParts(parts) ==
    /\ Len(parts) >= 4
    /\ parts[1] = <<"1", "2", "7">>
    /\ IsOctetText(parts[2])
    /\ IsOctetText(parts[3])
    /\ Len(parts[4]) >= 1 /\ IsDigit(parts[4][1])

\* the patterns of ip.isLoopback (release 1.1.9): 127.x.x.x, /^0177\./,
\* /^0x7f\./i, /^fe80::1$/i, /^::1$/, /^::$/
InLoopbackPatterns(addr) ==
    \/ LoopbackParts(Split(StripMapped(addr, {"f"}), "."))
    \/ StartsWith(addr, <<"0", "1", "7", "7", ".">>)
    \/ /\ Len(addr) >= 5
       /\ addr[1] = "0" /\ addr[2] \in {"x", "X"} /\ addr[3] = "7"
       /\ addr[4] \in {"f", "F"} /\ addr[5] = "."
    \/ /\ Len(addr) = 7
       /\ addr[1] \in {"f", "F"} /\ addr[2] \in {"e", "E"}
       /\ SubSeq(addr, 3, 7) = <<"8", "0", ":", ":", "1">>
    \/ addr = <<":", ":", "1">>
    \/ addr = <<":", ":">>

\* ip.isLoopback of release 1.1.9: a text with no "." and no ":" is read as
\* the address in long integer form
isLoopback(addr) ==
    IF \A i \in 1..Len(addr) : addr[i] \notin {".", ":"}
    THEN InLoopbackPatterns(fromLong(NumberOf(addr)))
    ELSE InLoopbackPatterns(addr)

\* one part of ip.normalizeToLong: hexadecimal, octal or decimal, else NaN
NormalizePart(part) ==
    IF Len(part) >= 2 /\ part[1] = "0" /\ part[2] \in {"x", "X"}
    THEN ParseInt(SubSeq(part, 3, Len(part)), 16)
    ELSE IF /\ Len(part) >= 1 /\ part[1] = "0" /\ part # <<"0">>
            /\ \A i \in 1..Len(part) : part[i] \in {"0", "1", "2", "3", "4", "5", "6", "7"}
         THEN ParseInt(part, 8)
    ELSE IF \/ part = <<"0">>
            \/ /\ Len(part) >= 1 /\ part[1] \in (Digits \ {"0"})
               /\ \A i \in 1..Len(part) : IsDigit(part[i])
         THEN ParseInt(part, 10)
    ELSE NaN

\* the switch of ip.normalizeToLong on the number of parts
LongOfParts(parts) ==
    IF \E k \in 1..Len(parts) : parts[k] = NaN THEN -1
    ELSE IF Len(parts) = 1 THEN parts[1]
    ELSE IF Len(parts) = 2 THEN
        IF parts[1] > 255 \/ parts[2] > 16777215 THEN -1
        ELSE parts[1] * 16777216 + parts[2]
    ELSE IF Len(parts) = 3 THEN
        IF parts[1] > 255 \/ parts[2] > 255 \/ parts[3] > 65535 THEN -1
        ELSE parts[1] * 16777216 + parts[2] * 65536 + parts[3]
    ELSE IF Len(parts) = 4 THEN
        IF \E k \in 1..4 : parts[k] > 255 THEN -1
        ELSE parts[1] * 16777216 + parts[2] * 65536 + parts[3] * 256 + parts[4]
    ELSE -1

NormalizeParts(texts) == [k \in 1..Len(texts) |-> NormalizePart(texts[k])]

\* ip.normalizeToLong(addr) of release 1.1.9: -1 for an invalid address,
\* else the 32-bit value
normalizeToLong(addr) == LongOfParts(NormalizeParts(Split(addr, ".")))

\* the IPv4 branch of ip.isPrivate (release 1.1.9) on the normalized value
PrivateOfLong(ipl) ==
    IF ipl < 0 THEN Throw("invalid ipv4 address")
    ELSE Return(InPrivatePatterns(fromLong(ipl)))

\* ip.isPrivate of release 1.1.9: loopback first, then an address that is
\* not in the IPv6 format is normalized (or rejected) before the patterns
isPrivatePatched(addr) ==
    IF isLoopback(addr) THEN Return(TRUE)
    ELSE IF ~isV6Format(addr) THEN PrivateOfLong(normalizeToLong(addr))
    ELSE Return(InPrivatePatterns(addr))

\* the releases that the range ^1.1.5 admits, by their isPrivate
IpReleases == {"1.1.5", "1.1.9"}

\* ip.isPrivate(addr) of the installed release
isPrivate(release, addr) ==
    IF release = "1.1.9" THEN isPrivatePatched(addr)
    ELSE Return(isPrivateLegacy(addr))

(***************************************************************************)
(* compare.ipAddresses (src/src/index.ts:263-268).                         *)
(***************************************************************************)

\* left || right of two outcomes: the right operand decides only when the
\* left one returned false, and an exception of either leaves the function
OrElse(left, right) ==
    IF left.kind = "throw" THEN left
    ELSE IF left.value THEN Return(TRUE)
    ELSE right

\* slips of compare.ipAddresses that the claims must tell apart from it:
\* the roles of the arguments swapped, the texts compared instead of the
\* addresses, the bypass granted to a private request address too
ipAddresses_SwappedRoles(release, request_ip_address, session_ip_address) ==
    OrElse(isPrivate(release, request_ip_address),
           isEqual(request_ip_address, session_ip_address))

ipAddresses_LiteralEquality(release, request_ip_address, session_ip_address) ==
    OrElse(isPrivate(release, session_ip_address),
           Return(request_ip_address = session_ip_address))

ipAddresses_EitherPrivate(release, request_ip_address, session_ip_address) ==
    OrElse(isPrivate(release, session_ip_address),
           OrElse(isPrivate(release, request_ip_address),
                  isEqual(request_ip_address, session_ip_address)))

\* ip.isPrivate(session_ip_address) ||
\*     ip.isEqual(request_ip_address, session_ip_address)
ipAddresses(release, request_ip_address, session_ip_address) ==
    OrElse(isPrivate(release, session_ip_address),
           isEqual(request_ip_address, session_ip_address))

(***************************************************************************)
(* Address texts the comparison is exercised on.                           *)
(***************************************************************************)

\* leading zeros put in front of the first octet of a dotted quad
MaxPad == 1

V4(a, b, c, d) == Join(<<Dec(a), Dec(b), Dec(c), Dec(d)>>, ".")
V4Padded(k, a, b, c, d) == [j \in 1..k |-> "0"] \o V4(a, b, c, d)

\* ::ffff:a.b.c.d (IPv4-mapped) and ::a.b.c.d (IPv4-compatible)
Mapped(v4) == <<":", ":", "f", "f", "f", "f", ":">> \o v4
Compatible(v4) == <<":", ":">> \o v4

\* octets on and next to the borders of 10/8, 127/8, 169.254/16, 172.16/12
\* and 192.168/16
FirstOctets == {8, 10, 11, 127, 128, 169, 172, 192}
SecondOctets == {0, 15, 16, 31, 32, 167, 168, 254}

GridV4Texts ==
    {V4Padded(k, a, b, 0, 1) : k \in 0..MaxPad, a \in FirstOctets, b \in SecondOctets}

NamedV4Texts ==
    { V4(95, 107, 167, 200), V4(8, 8, 8, 8), V4(1, 2, 3, 4), V4(192, 168, 1, 1),
      V4(127, 0, 0, 1), V4(10, 0, 0, 1), V4(10, 255, 255, 255),
      V4(172, 15, 255, 255), V4(172, 32, 0, 0), V4(192, 167, 255, 255),
      V4(192, 169, 0, 0), V4(128, 0, 0, 1), V4(11, 0, 0, 1),
      V4(9, 255, 255, 255), V4(126, 255, 255, 255), V4(169, 253, 0, 1),
      V4(169, 255, 0, 1) }

\* IPv6 texts with the eight 16-bit words each denotes (RFC 4291)
V6Table ==
    { [text |-> <<":", ":", "1">>,
       words |-> <<0, 0, 0, 0, 0, 0, 0, 1>>],
      [text |-> <<":", ":">>,
       words |-> <<0, 0, 0, 0, 0, 0, 0, 0>>],
      [text |-> <<"f", "e", "8", "0", ":", ":", "1">>,
       words |-> <<65152, 0, 0, 0, 0, 0, 0, 1>>],
      [text |-> <<"f", "c", "0", "0", ":", ":", "1">>,
       words |-> <<64512, 0, 0, 0, 0, 0, 0, 1>>],
      [text |-> <<"2", "0", "0", "1", ":", "d", "b", "8", ":", ":", "1">>,
       words |-> <<8193, 3512, 0, 0, 0, 0, 0, 1>>],
      [text |-> <<"2", "0", "0", "1", ":", "d", "b", "8", ":", "0", ":", "0",
                  ":", "0", ":", "0", ":", "0", ":", "1">>,
       words |-> <<8193, 3512, 0, 0, 0, 0, 0, 1>>],
      [text |-> <<"2", "0", "0", "1", ":", "D", "B", "8", ":", ":", "0", "0", "0", "1">>,
       words |-> <<8193, 3512, 0, 0, 0, 0, 0, 1>>],
      [text |-> <<"2", "0", "0", "1", ":", "d", "b", "8", ":", ":", "2">>,
       words |-> <<8193, 3512, 0, 0, 0, 0, 0, 2>>],
      [text |-> Mapped(V4(8, 8, 8, 8)),
       words |-> <<0, 0, 0, 0, 0, 65535, 2056, 2056>>],
      [text |-> Mapped(V4(10, 0, 0, 1)),
       words |-> <<0, 0, 0, 0, 0, 65535, 2560, 1>>],
      [text |-> Compatible(V4(8, 8, 8, 8)),
       words |-> <<0, 0, 0, 0, 0, 0, 2056, 2056>>] }

V6Texts == {e.text : e \in V6Table}

\* public dotted quads written with leading zeros in the first octet or in
\* every octet, and the plain form of each
PaddedV4Texts ==
    {V4Padded(k, a, 0, 0, 1) : k \in 0..(MaxPad + 1), a \in {8, 11}}
    \cup {V4Padded(k, 8, 8, 8, 8) : k \in 1..(MaxPad + 1)}
    \cup {<<"0", "0", "8", ".", "0", "0", "8", ".", "0", "0", "8", ".", "0", "0", "8">>}

\* texts that are no address: empty, letters, too few or too many parts, an
\* octet above 255, short and hexadecimal inet_aton forms, a bare number
MalformedTexts ==
    { <<>>,
      <<"g", "a", "r", "b", "a", "g", "e">>,
      <<"a", "b", "c">>,
      <<"1", ".", "2", ".", "3">>,
      V4(1, 2, 3, 4) \o <<".", "5">>,
      V4(127, 0, 0, 1) \o <<".", "5">>,
      V4(10, 999, 0, 1),
      V4(8, 8, 8, 264),
      V4(256, 1, 1, 1),
      <<"1", "0", ".", "1">>,
      <<"0", "x", "7", "f", ".", "1">>,
      <<"0", "x", "8", ".", "8", ".", "8", ".", "8">>,
      <<"2", "1", "3", "0", "7", "0", "6", "4", "3", "3">>,
      V4(8, 8, 8, 8) \o <<" ">> }

SessionTexts ==
    GridV4Texts \cup NamedV4Texts \cup PaddedV4Texts \cup V6Texts \cup MalformedTexts
RequestTexts == NamedV4Texts \cup PaddedV4Texts \cup V6Texts \cup MalformedTexts

(***************************************************************************)
(* The comparison of addresses as a state machine: the arguments are drawn *)
(* initially, the call computes the outcome.                               *)
(***************************************************************************)
InitIp ==
    /\ ipRelease \in IpReleases
    /\ session_ip \in SessionTexts
    /\ request_ip \in RequestTexts \cup {session_ip}
    /\ ip_outcome = NoCall
    /\ request_user_agent = <<>>
    /\ session_user_agent = <<>>
    /\ ua_outcome = NoCall
    /\ log_level = "fatal"
    /\ trace = <<>>
    /\ Loaded("esm")

\* %20.20s: the first 20 characters, padded on the left to 20 columns
Format2020(s) ==
    IF Len(s) >= 20 THEN SubSeq(s, 1, 20)
    ELSE [j \in 1..(20 - Len(s)) |-> " "] \o s

\* the arguments of log.debug at line 264
IpLine(request_ip_address, session_ip_address) ==
    [fn |-> "ipAddresses",
     args |-> <<Format2020(request_ip_address), session_ip_address>>]

\* compare.ipAddresses(request_ip, session_ip)
CallIpAddresses ==
    /\ ip_outcome.kind = "none"
    /\ ip_outcome' = Then(debug(log_level, IpLine(request_ip, session_ip)),
                          ipAddresses(ipRelease, request_ip, session_ip))
    /\ trace' = trace \o debug(log_level, IpLine(request_ip, session_ip)).lines
    /\ UNCHANGED <<ipRelease, request_ip, session_ip, uaVars, log_level,
                   history, sdkVars>>

NextIp == CallIpAddresses

SpecIp == InitIp /\ [][NextIp]_vars

(***************************************************************************)
(* Package `ua-parser-js` (^0.7.21), imported at src/src/index.ts:7.       *)
(*                                                                         *)
(* A user-agent text is a sequence of lexemes [name, version]: a product   *)
(* ("Chrome/81" is name "Chrome", version 81) or a word of a comment       *)
(* ("Linux", "x86_64", "Windows NT 10" is name "Windows NT", version 10);  *)
(* version 0 is a lexeme that carries none.  The parser tries its patterns *)
(* in the order of its tables and takes the first that matches.            *)
(***************************************************************************)
Undefined == "<undefined>"

Lex(name, version) == [name |-> name, version |-> version]

HasLexeme(ua, names) == \E i \in 1..Len(ua) : ua[i].name \in names

\* position of the first lexeme with one of the names (0 when there is none)
FirstLexeme(ua, names) ==
    IF HasLexeme(ua, names)
    THEN CHOOSE i \in 1..Len(ua) :
             ua[i].name \in names /\ \A j \in 1..(i - 1) : ua[j].name \notin names
    ELSE 0

\* whether a lexeme of `later` stands after the first lexeme of `names`
FollowedBy(ua, names, later) ==
    /\ HasLexeme(ua, names)
    /\ \E j \in (FirstLexeme(ua, names) + 1)..Len(ua) : ua[j].name \in later

Named(ua, names, name) ==
    [name |-> name, version |-> ua[FirstLexeme(ua, names)].version]

\* UAParser.getBrowser: the rows of the browser table that tell the families
\* apart, in the table's order: Edge, Chrome, Safari (version/... safari),
\* Safari (webkit ... safari/...), WebKit, Firefox (/firefox\/[\w.-]+$/, the
\* last lexeme), Mozilla (mozilla/ ... rv: ... gecko/)
getBrowser(ua) ==
    IF HasLexeme(ua, {"Edg", "Edge"}) THEN Named(ua, {"Edg", "Edge"}, "Edge")
    ELSE IF HasLexeme(ua, {"Chrome"}) THEN Named(ua, {"Chrome"}, "Chrome")
    ELSE IF FollowedBy(ua, {"Version"}, {"Safari"}) THEN Named(ua, {"Version"}, "Safari")
    ELSE IF FollowedBy(ua, {"AppleWebKit"}, {"Safari"}) THEN Named(ua, {"Safari"}, "Safari")
    ELSE IF HasLexeme(ua, {"AppleWebKit"}) THEN Named(ua, {"AppleWebKit"}, "WebKit")
    ELSE IF Len(ua) > 0 /\ ua[Len(ua)].name = "Firefox" THEN Named(ua, {"Firefox"}, "Firefox")
    ELSE IF /\ FollowedBy(ua, {"Mozilla"}, {"rv"})
            /\ FollowedBy(ua, {"rv"}, {"Gecko"}) THEN Named(ua, {"rv"}, "Mozilla")
    ELSE [name |-> Undefined, version |-> 0]

\* UAParser.getCPU: /((amd|x(86|64)[_-])?|wow|win)64[;)]/ is amd64,
\* /((i[346]|x)86)[;)]/ is ia32, /arm64/ is arm64
getCPU(ua) ==
    IF HasLexeme(ua, {"amd64", "x86_64", "x64", "WOW64", "Win64"})
    THEN [architecture |-> "amd64"]
    ELSE IF HasLexeme(ua, {"i386", "i686", "x86"}) THEN [architecture |-> "ia32"]
    ELSE IF HasLexeme(ua, {"arm64"}) THEN [architecture |-> "arm64"]
    ELSE [architecture |-> Undefined]

\* UAParser.getOS: Windows, then Android, then Linux, then iOS, then Mac OS
getOS(ua) ==
    IF HasLexeme(ua, {"Windows NT", "Windows"})
    THEN Named(ua, {"Windows NT", "Windows"}, "Windows")
    ELSE IF HasLexeme(ua, {"Android"}) THEN Named(ua, {"Android"}, "Android")
    ELSE IF HasLexeme(ua, {"Linux"}) THEN Named(ua, {"Linux"}, "Linux")
    ELSE IF HasLexeme(ua, {"iPhone OS"}) THEN Named(ua, {"iPhone OS"}, "iOS")
    ELSE IF HasLexeme(ua, {"Intel Mac OS X", "Mac OS X"})
         THEN Named(ua, {"Intel Mac OS X", "Mac OS X"}, "Mac OS")
    ELSE IF HasLexeme(ua, {"Macintosh"}) THEN Named(ua, {"Macintosh"}, "Mac OS")
    ELSE [name |-> Undefined, version |-> 0]

\* UAParser.getDevice: the model named in the comment, when one is known
getDevice(ua) ==
    IF HasLexeme(ua, {"Pixel"}) THEN Named(ua, {"Pixel"}, "Pixel")
    ELSE [name |-> Undefined, version |-> 0]

\* a slip of the parser that the claims must tell apart from it: a text no
\* pattern matches is rejected instead of parsed to unknown fields
getResult_RejectsUnknown(ua) ==
    IF getBrowser(ua).name = Undefined /\ getOS(ua).name = Undefined
    THEN Throw("TypeError")
    ELSE Return([ua |-> ua, browser |-> getBrowser(ua), os |-> getOS(ua),
                 cpu |-> getCPU(ua), device |-> getDevice(ua)])

\* new UAParser(ua).getResult(): every part is an object, its fields are
\* undefined when no pattern matched; the constructor and getResult do not
\* throw
getResult(ua) ==
    Return([ua |-> ua, browser |-> getBrowser(ua), os |-> getOS(ua),
            cpu |-> getCPU(ua), device |-> getDevice(ua)])

(***************************************************************************)
(* compare.userAgents (src/src/index.ts:230-254).                          *)
(***************************************************************************)

\* slips of the test that the claims must tell apart from it: the OS left
\* out, the browser version compared too, && written for ||, and the OS of
\* the request compared with the browser of the session
SameClient_NoOsCheck(request_ua, session_ua) ==
    IF \/ request_ua.cpu.architecture # session_ua.cpu.architecture
       \/ request_ua.browser.name # session_ua.browser.name
    THEN FALSE
    ELSE TRUE

SameClient_WithVersion(request_ua, session_ua) ==
    IF \/ request_ua.cpu.architecture # session_ua.cpu.architecture
       \/ request_ua.os.name # session_ua.os.name
       \/ request_ua.browser.name # session_ua.browser.name
       \/ request_ua.browser.version # session_ua.browser.version
    THEN FALSE
    ELSE TRUE

SameClient_AllMustDiffer(request_ua, session_ua) ==
    IF /\ request_ua.cpu.architecture # session_ua.cpu.architecture
       /\ request_ua.os.name # session_ua.os.name
       /\ request_ua.browser.name # session_ua.browser.name
    THEN FALSE
    ELSE TRUE

SameClient_CrossedFields(request_ua, session_ua) ==
    IF \/ request_ua.cpu.architecture # session_ua.cpu.architecture
       \/ request_ua.os.name # session_ua.browser.name
       \/ request_ua.browser.name # session_ua.browser.name
    THEN FALSE
    ELSE TRUE

\* a slip that makes the test one-sided: a field the request does not state
\* is not compared
SameClient_UnknownRequestPasses(request_ua, session_ua) ==
    IF \/ /\ request_ua.cpu.architecture # Undefined
          /\ request_ua.cpu.architecture # session_ua.cpu.architecture
       \/ /\ request_ua.os.name # Undefined
          /\ request_ua.os.name # session_ua.os.name
       \/ /\ request_ua.browser.name # Undefined
          /\ request_ua.browser.name # session_ua.browser.name
    THEN FALSE
    ELSE TRUE

\* a slip that forces a mismatch when a compared field is unknown
SameClient_UnknownNeverMatches(request_ua, session_ua) ==
    IF \/ request_ua.cpu.architecture # session_ua.cpu.architecture
       \/ request_ua.os.name # session_ua.os.name
       \/ request_ua.browser.name # session_ua.browser.name
       \/ request_ua.browser.name = Undefined
    THEN FALSE
    ELSE TRUE

\* the test of lines 246-253 on the two parsed results
SameClient(request_ua, session_ua) ==
    IF \/ request_ua.cpu.architecture # session_ua.cpu.architecture
       \/ request_ua.os.name # session_ua.os.name
       \/ request_ua.browser.name # session_ua.browser.name
    THEN FALSE
    ELSE TRUE

\* lines 231-253 on the outcomes of the two getResult calls
CompareParsed(request, session) ==
    IF request.kind = "throw" THEN request
    ELSE IF session.kind = "throw" THEN session
    ELSE Return(SameClient(request.value, session.value))

\* compare.userAgents(request_user_agent, session_user_agent)
userAgents(request_ua_text, session_ua_text) ==
    CompareParsed(getResult(request_ua_text), getResult(session_ua_text))

(***************************************************************************)
(* User-agent texts the comparison is exercised on.                        *)
(***************************************************************************)

\* version numbers run from 1 to MaxVersion
MaxVersion == 2

Versions == 1..MaxVersion

PlatformTexts ==
    { <<Lex("X11", 0), Lex("Linux", 0), Lex("x86_64", 0)>>,
      <<Lex("X11", 0), Lex("Linux", 0), Lex("i686", 0)>>,
      <<>> }
    \cup {<<Lex("Windows NT", v), Lex("Win64", 0), Lex("x64", 0)>> : v \in Versions}
    \cup {<<Lex("Macintosh", 0), Lex("Intel Mac OS X", v)>> : v \in Versions}
    \cup {<<Lex("Linux", 0), Lex("Android", v), Lex("Pixel", v)>> : v \in Versions}
    \cup {<<Lex("Linux", 0), Lex("Android", v)>> : v \in Versions}

ProductTexts ==
    { <<>> }
    \cup {<<Lex("AppleWebKit", 537), Lex("KHTML, like Gecko", 0),
            Lex("Chrome", v), Lex("Safari", 537)>> : v \in Versions}
    \cup {<<Lex("rv", v), Lex("Gecko", 20100101), Lex("Firefox", v)>> : v \in Versions}
    \cup {<<Lex("AppleWebKit", 605), Lex("KHTML, like Gecko", 0),
            Lex("Version", v), Lex("Safari", 605)>> : v \in Versions}

\* texts no pattern of the parser matches
UnparseableTexts ==
    {<<>>, <<Lex("junk", 0)>>} \cup {<<Lex("curl", v)>> : v \in Versions}

UaTexts ==
    {<<Lex("Mozilla", 5)>> \o p \o q : p \in PlatformTexts, q \in ProductTexts}
    \cup UnparseableTexts

InitUa ==
    /\ ipRelease \in IpReleases
    /\ request_ip = <<>>
    /\ session_ip = <<>>
    /\ ip_outcome = NoCall
    /\ request_user_agent \in UaTexts
    /\ session_user_agent \in UaTexts
    /\ ua_outcome = NoCall
    /\ log_level = "fatal"
    /\ trace = <<>>
    /\ Loaded("esm")

\* the arguments of log.debug at lines 234-244: the two texts and the three
\* pairs of fields (each name is shorter than the 20 columns of %20.20s)
UaFields(request, session) ==
    <<request.value.cpu.architecture, session.value.cpu.architecture,
      request.value.os.name, session.value.os.name,
      request.value.browser.name, session.value.browser.name>>

UaLine(request_ua_text, session_ua_text) ==
    [fn |-> "userAgents",
     args |-> <<request_ua_text, session_ua_text,
                UaFields(getResult(request_ua_text), getResult(session_ua_text))>>]

\* compare.userAgents(request_user_agent, session_user_agent)
CallUserAgents ==
    /\ ua_outcome.kind = "none"
    /\ ua_outcome' = Then(debug(log_level, UaLine(request_user_agent, session_user_agent)),
                          userAgents(request_user_agent, session_user_agent))
    /\ trace' = trace \o debug(log_level, UaLine(request_user_agent, session_user_agent)).lines
    /\ UNCHANGED <<ipVars, request_user_agent, session_user_agent, log_level,
                   history, sdkVars>>

NextUa == CallUserAgents

SpecUa == InitUa /\ [][NextUa]_vars

(***************************************************************************)
(* Both comparisons under every level of the logger.                       *)
(***************************************************************************)
TraceIpTexts ==
    { V4(8, 8, 8, 8), V4(95, 107, 167, 200), V4(192, 168, 1, 1),
      <<"2", "0", "0", "1", ":", "d", "b", "8", ":", ":", "1">>,
      <<"g", "a", "r", "b", "a", "g", "e">> }

TraceUaTexts ==
    { <<>>,
      <<Lex("Mozilla", 5), Lex("X11", 0), Lex("Linux", 0), Lex("x86_64", 0),
        Lex("AppleWebKit", 537), Lex("KHTML, like Gecko", 0),
        Lex("Chrome", 1), Lex("Safari", 537)>>,
      <<Lex("Mozilla", 5), Lex("X11", 0), Lex("Linux", 0), Lex("x86_64", 0),
        Lex("rv", 1), Lex("Gecko", 20100101), Lex("Firefox", 1)>> }

InitTrace ==
    /\ ipRelease \in IpReleases
    /\ request_ip \in TraceIpTexts
    /\ session_ip \in TraceIpTexts
    /\ ip_outcome = NoCall
    /\ request_user_agent \in TraceUaTexts
    /\ session_user_agent \in TraceUaTexts
    /\ ua_outcome = NoCall
    /\ log_level \in {LogLevels[i] : i \in 1..Len(LogLevels)}
    /\ trace = <<>>
    /\ Loaded("esm")

NextTrace == CallIpAddresses \/ CallUserAgents

SpecTrace == InitTrace /\ [][NextTrace]_vars

(***************************************************************************)
(* Responses of the service (ApiResponse, src/src/index.ts:17-22).  A JSON *)
(* value is kept with its type, so that 0 and "" are values of their own   *)
(* and a property that is not there differs from both.                     *)
(***************************************************************************)
Absent == [type |-> "absent", text |-> ""]
Num(text) == [type |-> "number", text |-> text]
Str(text) == [type |-> "string", text |-> text]
\* an object with an id, such as the credential of a validated session
Obj(id) == [type |-> "object", text |-> id]

\* ToBoolean of a property read: undefined, 0, NaN and "" are false
Truthy(v) ==
    IF v.type = "number" THEN v.text \notin {"0", "NaN"}
    ELSE IF v.type = "string" THEN v.text # ""
    ELSE v.type = "object"

\* the text a template literal gives for a property read
ToText(v) ==
    IF v.type = "absent" THEN "undefined"
    ELSE IF v.type = "object" THEN "[object Object]"
    ELSE v.text

\* a slip of the message: a property that is not there is left out
error_check_OmitsAbsent(response) ==
    IF Truthy(response.status) \/ Truthy(response.error)
    THEN Throw(response.status.text \o " " \o response.error.text \o ": "
               \o response.message.text)
    ELSE Return("void")

\* a slip that takes only an error property for a failure and ignores the
\* status
error_check_IgnoresStatus(response) ==
    IF response.error.type = "object"
    THEN Throw(ToText(response.status) \o " " \o ToText(response.error) \o ": "
               \o ToText(response.message))
    ELSE Return("void")

\* error_check(response), lines 50-54 (293-296 in the CommonJS module)
error_check(response) ==
    IF Truthy(response.status) \/ Truthy(response.error)
    THEN Throw(ToText(response.status) \o " " \o ToText(response.error) \o ": "
               \o ToText(response.message))
    ELSE Return("void")

\* Object.entries(data): the keys data has
Entries(data) == {k \in DOMAIN data : data[k] # Absent}

\* the properties the class declares (lines 183, 201-204): emitted as class
\* fields they are own properties holding undefined before the constructor
\* body runs; erased, or in the CommonJS classes, there are none
DeclaredFields(build, class) ==
    IF build # "esm_define" THEN {}
    ELSE IF class = "User" THEN {"id"}
    ELSE {"id", "credential"}

\* a container of the known fields only: id, and credential for a Session
Container_KnownFieldsOnly(build, class, data) ==
    [class |-> class,
     own |-> DeclaredFields(build, class) \cup (Entries(data) \cap {"id", "credential"}),
     props |-> [k \in DOMAIN data |->
                   IF k \in {"id", "credential"} THEN data[k] ELSE Absent]]

\* new User(data), new Session(data): this[k] = v for every entry of data;
\* `own` is the set of the instance's own properties, `props` what reading
\* each property gives
Container(build, class, data) ==
    [class |-> class,
     own |-> DeclaredFields(build, class) \cup Entries(data),
     props |-> [k \in DOMAIN data |->
                   IF k \in Entries(data) THEN data[k] ELSE Absent]]

ClassOf(op) == IF op \in {"user", "update_password"} THEN "User" ELSE "Session"

\* error_check(response); return new User(response) / new Session(response)
CheckedContainer(build, op, checked, response) ==
    IF checked.kind = "throw" THEN checked
    ELSE Return(Container(build, ClassOf(op), response))

\* what the awaiting method does with the response: Collection.create hands
\* it back as it is (line 76), the others log it, check it and wrap it
Settle(build, level, op, response) ==
    IF op = "create" THEN Return(response)
    ELSE Then(debug(level, [fn |-> op, args |-> <<response>>]),
              CheckedContainer(build, op, error_check(response), response))

\* bodies the service answers with: a status and an error that are absent,
\* falsy or set, with or without a message; the id of the created or found
\* object, with or without its credential, when neither status nor error is
\* there
ApiResponses ==
    { [status |-> s, error |-> e, message |-> m,
       id |-> IF s = Absent /\ e = Absent THEN Str("Id_1") ELSE Absent,
       credential |-> IF s = Absent /\ e = Absent THEN c ELSE Absent] :
         s \in {Absent, Num("0"), Num("401")},
         e \in {Absent, Str(""), Str("Unauthorized")},
         m \in {Absent, Str("Invalid password")},
         c \in {Absent, Obj("Auth_U1-1")} }

(***************************************************************************)
(* The methods of Collection: the part before `await` issues the request,  *)
(* the part after it runs when the response arrives.                       *)
(***************************************************************************)
MaxPending == 2

Request(client, method, path, data) ==
    [method |-> method, base |-> client.base, path |-> path,
     headers |-> client.headers, data |-> data]

\* a call in flight keeps the method's name, the instance it was called on
\* (0 for the static method) and its arguments with the request it sent;
\* `sent` counts the requests the call has sent
Issue(op, instance, args, request) ==
    /\ Len(pending) < MaxPending
    /\ pending' = Append(pending, [op |-> op, instance |-> instance, args |-> args,
                                   request |-> request, sent |-> 1])
    /\ UNCHANGED <<ipVars, uaVars, logVars, history, sdk_build, urlVars, instances,
                   sdk_outcome, server_sessions, server_credentials>>

\* Collection.create(): an anonymous client on the base URL of this moment
CallCreate ==
    Issue("create", 0, <<>>, Request(Client(base_url, NoHeader), "POST", "/collections", <<>>))

\* a slip that creates the client in the method, on the base URL of the call
CallUser_ClientPerCall(i, password) ==
    Issue("user", i, <<password>>,
          Request(Client(base_url, "Authentic " \o instances[i].access_key), "POST",
                  "/collections/" \o instances[i].collection_id \o "/credentials",
                  [password |-> password]))

\* instances[i].user(password)
CallUser(i, password) ==
    Issue("user", i, <<password>>,
          Request(instances[i].api, "POST",
                  "/collections/" \o instances[i].collection_id \o "/credentials",
                  [password |-> password]))

\* a slip that sends the two passwords under each other's names
CallUpdatePassword_SwapsPasswords(i, credential_id, current_password, password) ==
    Issue("update_password", i, <<credential_id, current_password, password>>,
          Request(instances[i].api, "PUT", "/credentials/" \o credential_id,
                  [current_password |-> password, password |-> current_password]))

\* instances[i].update_password(credential_id, current_password, password)
CallUpdatePassword(i, credential_id, current_password, password) ==
    Issue("update_password", i, <<credential_id, current_password, password>>,
          Request(instances[i].api, "PUT", "/credentials/" \o credential_id,
                  [current_password |-> current_password, password |-> password]))

\* instances[i].session(credential_id, password, ip_address, user_agent)
CallSession(i, credential_id, password, ip_address, user_agent) ==
    Issue("session", i, <<credential_id, password, ip_address, user_agent>>,
          Request(instances[i].api, "POST",
                  "/credentials/" \o credential_id \o "/sessions",
                  [password |-> password, ip_address |-> ip_address,
                   user_agent |-> user_agent]))

\* a slip in the path of the session
CallValidate_SingularPath(i, id, ip_address, user_agent) ==
    Issue("validate", i, <<id, ip_address, user_agent>>,
          Request(instances[i].api, "GET", "/session/" \o id,
                  [ip_address |-> ip_address, user_agent |-> user_agent]))

\* instances[i].validate(id, ip_address, user_agent)
CallValidate(i, id, ip_address, user_agent) ==
    Issue("validate", i, <<id, ip_address, user_agent>>,
          Request(instances[i].api, "GET", "/sessions/" \o id,
                  [ip_address |-> ip_address, user_agent |-> user_agent]))

Without(calls, k) == SubSeq(calls, 1, k - 1) \o SubSeq(calls, k + 1, Len(calls))

\* service side: a session the service created is recorded with the context
\* of the request that created it
Recorded(sessions, call, response) ==
    IF call.op = "session" /\ response.id # Absent
    THEN {s \in sessions : s.id # response.id.text}
         \cup {[id |-> response.id.text,
                 ip_address |-> call.request.data.ip_address,
                 user_agent |-> call.request.data.user_agent]}
    ELSE sessions

\* a call settled by its response: what was sent, what arrived and what the
\* method made of it; `ahead` is the number of calls made before it that
\* were still in flight
Answer(build, level, call, ahead, response) ==
    [op |-> call.op, instance |-> call.instance, args |-> call.args,
     request |-> call.request, sent |-> call.sent, ahead |-> ahead,
     answered |-> TRUE, response |-> response,
     outcome |-> Settle(build, level, call.op, response)]

\* a slip that keeps the method awaiting in a slot of the module: the
\* response is handled as the call made first would handle it
Respond_SharedSlot(k, response) ==
    /\ k \in 1..Len(pending)
    /\ sdk_outcome' = [op |-> pending[k].op, instance |-> pending[k].instance,
                       args |-> pending[k].args, request |-> pending[k].request,
                       sent |-> pending[k].sent, ahead |-> k - 1,
                       answered |-> TRUE, response |-> response,
                       outcome |-> Settle(sdk_build, log_level, pending[1].op, response)]
    /\ trace' = trace \o (IF pending[1].op = "create" THEN <<>>
                          ELSE debug(log_level,
                                     [fn |-> pending[1].op, args |-> <<response>>]).lines)
    /\ server_sessions' = Recorded(server_sessions, pending[k], response)
    /\ pending' = Without(pending, k)
    /\ UNCHANGED <<ipVars, uaVars, log_level, history, sdk_build, urlVars, instances,
                   server_credentials>>

\* the response to the k-th call in flight arrives
Respond(k, response) ==
    /\ k \in 1..Len(pending)
    /\ sdk_outcome' = Answer(sdk_build, log_level, pending[k], k - 1, response)
    /\ trace' = trace \o (IF pending[k].op = "create" THEN <<>>
                          ELSE debug(log_level,
                                     [fn |-> pending[k].op, args |-> <<response>>]).lines)
    /\ server_sessions' = Recorded(server_sessions, pending[k], response)
    /\ pending' = Without(pending, k)
    /\ UNCHANGED <<ipVars, uaVars, log_level, history, sdk_build, urlVars, instances,
                   server_credentials>>

\* a slip that catches the failure and sends the request once more
Reject_Retries(k) ==
    /\ k \in 1..Len(pending)
    /\ pending[k].sent = 1
    /\ pending' = [pending EXCEPT ![k].sent = 2]
    /\ UNCHANGED <<ipVars, uaVars, logVars, history, sdk_build, urlVars, instances,
                   sdk_outcome, server_sessions, server_credentials>>

\* the request of the k-th call in flight fails: the promise of the client
\* rejects and so does the method
Reject(k) ==
    /\ k \in 1..Len(pending)
    /\ sdk_outcome' = [op |-> pending[k].op, instance |-> pending[k].instance,
                       args |-> pending[k].args, request |-> pending[k].request,
                       sent |-> pending[k].sent, ahead |-> k - 1,
                       answered |-> FALSE,
                       response |-> [status |-> Absent, error |-> Absent,
                                     message |-> Absent, id |-> Absent,
                                     credential |-> Absent],
                       outcome |-> Throw("request failed")]
    /\ pending' = Without(pending, k)
    /\ UNCHANGED <<ipVars, uaVars, logVars, history, sdk_build, urlVars, instances,
                   server_sessions, server_credentials>>

(***************************************************************************)
(* A program that constructs instances and calls the methods, awaiting     *)
(* each call before it makes the next, while the service answers each      *)
(* request with any body, or the request fails.  The logger is at its      *)
(* default level and the base URL is left alone.                           *)
(***************************************************************************)
Passwords == {"Passw0rd!"}
NewPasswords == {"NewPass2!"}
CredentialIds == {"Auth_U1-1"}
SessionIds == {"Id_1"}

ContextIps == {V4(8, 8, 8, 8), V4(192, 168, 1, 1)}

ContextUas ==
    { <<Lex("Mozilla", 5), Lex("X11", 0), Lex("Linux", 0), Lex("x86_64", 0),
        Lex("AppleWebKit", 537), Lex("KHTML, like Gecko", 0),
        Lex("Chrome", 1), Lex("Safari", 537)>>,
      <<Lex("Mozilla", 5), Lex("X11", 0), Lex("Linux", 0), Lex("x86_64", 0),
        Lex("rv", 1), Lex("Gecko", 20100101), Lex("Firefox", 1)>> }

InitSdk ==
    /\ ipRelease \in IpReleases
    /\ request_ip = <<>>
    /\ session_ip = <<>>
    /\ ip_outcome = NoCall
    /\ request_user_agent = <<>>
    /\ session_user_agent = <<>>
    /\ ua_outcome = NoCall
    /\ log_level = "fatal"
    /\ trace = <<>>
    /\ \E build \in SdkBuilds : Loaded(build)

CallMethod(i) ==
    \/ \E password \in Passwords : CallUser(i, password)
    \/ \E credential_id \in CredentialIds, current \in Passwords, password \in NewPasswords :
           CallUpdatePassword(i, credential_id, current, password)
    \/ \E credential_id \in CredentialIds, password \in Passwords,
          ip_address \in ContextIps, user_agent \in ContextUas :
           CallSession(i, credential_id, password, ip_address, user_agent)
    \/ \E id \in SessionIds, ip_address \in ContextIps, user_agent \in ContextUas :
           CallValidate(i, id, ip_address, user_agent)

NextSdk ==
    \/ \E collection_id \in CollectionIds, access_key \in AccessKeys :
           Construct(collection_id, access_key)
    \/ pending = <<>> /\ CallCreate
    \/ \E i \in 1..Len(instances) : pending = <<>> /\ CallMethod(i)
    \/ \E k \in 1..Len(pending), response \in ApiResponses : Respond(k, response)
    \/ \E k \in 1..Len(pending) : Reject(k)

SpecSdk == InitSdk /\ [][NextSdk]_vars

(***************************************************************************)
(* A program that sets the base URL, in the way of the tests or in the way *)
(* of the documentation, constructs instances and issues requests.         *)
(***************************************************************************)
OkResponses == {r \in ApiResponses : r.id # Absent}

NextConfig ==
    \/ \E url \in BaseUrls : AssignConfig(url)
    \/ \E url \in BaseUrls : AssignExport(url)
    \/ \E collection_id \in CollectionIds, access_key \in AccessKeys :
           Construct(collection_id, access_key)
    \/ CallCreate
    \/ \E i \in 1..Len(instances), password \in Passwords : CallUser(i, password)
    \/ \E k \in 1..Len(pending), response \in OkResponses : Respond(k, response)

SpecConfig == InitSdk /\ [][NextConfig]_vars

(***************************************************************************)
(* A program that makes calls without awaiting the one before: up to       *)
(* MaxPending calls are in flight at once, and their responses arrive in   *)
(* any order, each with any body, or the request fails.                    *)
(***************************************************************************)
EachMethod(i) ==
    \/ CallUser(i, "Passw0rd!")
    \/ CallUpdatePassword(i, "Auth_U1-1", "Passw0rd!", "NewPass2!")
    \/ CallSession(i, "Auth_U1-1", "Passw0rd!", V4(8, 8, 8, 8), <<Lex("curl", 1)>>)
    \/ CallValidate(i, "Sess_1", V4(8, 8, 8, 8), <<Lex("curl", 1)>>)

NextFlight ==
    \/ \E collection_id \in CollectionIds, access_key \in AccessKeys :
           Construct(collection_id, access_key)
    \/ CallCreate
    \/ \E i \in 1..Len(instances) : EachMethod(i)
    \/ \E k \in 1..Len(pending), response \in ApiResponses : Respond(k, response)
    \/ \E k \in 1..Len(pending) : Reject(k)

SpecFlight == InitSdk /\ [][NextFlight]_vars

(***************************************************************************)
(* The MagicAuth service as the documentation describes it                 *)
(* (API_CONTRACT.md, README.md "Error Handling", the flow document): it    *)
(* keeps the credentials with their password and the sessions with the     *)
(* context they were made in, answers a failed operation with              *)
(* {status, error, message}, and on validation compares the presented      *)
(* context with the recorded one.                                          *)
(***************************************************************************)
MaxCredentials == 1
MaxSessions == 2

\* the access keys of the collection
ValidKeys == {"key_1"}

IdDigits == <<"1", "2", "3", "4">>

ServiceError(status, error, message) ==
    [status |-> Num(status), error |-> Str(error), message |-> Str(message),
     id |-> Absent, credential |-> Absent]

ServiceOk(id, credential) ==
    [status |-> Absent, error |-> Absent, message |-> Absent,
     id |-> Str(id), credential |-> credential]

Authorized(request) ==
    request.headers.authorization \in {"Authentic " \o key : key \in ValidKeys}

\* the credentials a path names, between a prefix and a suffix
CredentialsAt(credentials, path, suffix) ==
    {c \in credentials : path = "/credentials/" \o c.id \o suffix}

CredentialsRoute(request) ==
    /\ request.method = "POST"
    /\ \E collection_id \in CollectionIds :
           request.path = "/collections/" \o collection_id \o "/credentials"

\* PUT /credentials/{id}: the current password given must be the credential's
UpdateResponse(found, given) ==
    IF found = {} THEN ServiceError("404", "Not Found", "Unknown credential")
    ELSE IF \A c \in found : c.password = given
    THEN ServiceOk((CHOOSE c \in found : TRUE).id, Absent)
    ELSE ServiceError("401", "Unauthorized", "Invalid password")

\* POST /credentials/{id}/sessions: the password given must be the
\* credential's; the session made gets the next id
SessionResponse(found, given, id) ==
    IF found = {} THEN ServiceError("404", "Not Found", "Unknown credential")
    ELSE IF \A c \in found : c.password = given THEN ServiceOk(id, Absent)
    ELSE ServiceError("401", "Unauthorized", "Invalid password")

\* GET /sessions/{id}: the session must exist and the context presented
\* must match the one recorded (compare.ipAddresses, compare.userAgents)
ValidateResponse(found, ipMatch, uaMatch) ==
    IF found = {} THEN ServiceError("404", "Not Found", "Unknown session")
    ELSE IF ipMatch.kind = "return" /\ ipMatch.value
            /\ uaMatch.kind = "return" /\ uaMatch.value
    THEN ServiceOk((CHOOSE s \in found : TRUE).id,
                   Obj((CHOOSE s \in found : TRUE).credential_id))
    ELSE ServiceError("401", "Unauthorized", "Context mismatch")

SessionsAt(sessions, path) == {s \in sessions : path = "/sessions/" \o s.id}

ContextMatch(release, found, data, fn) ==
    IF found = {} THEN NoCall
    ELSE IF fn = "ipAddresses"
    THEN ipAddresses(release, data.ip_address, (CHOOSE s \in found : TRUE).ip_address)
    ELSE userAgents(data.user_agent, (CHOOSE s \in found : TRUE).user_agent)

\* the body the service answers a request with
ServiceResponse(credentials, sessions, release, request) ==
    IF ~Authorized(request)
    THEN ServiceError("401", "Unauthorized", "Invalid access key")
    ELSE IF CredentialsRoute(request)
    THEN ServiceOk("Auth_U1-" \o IdDigits[Cardinality(credentials) + 1], Absent)
    ELSE IF request.method = "PUT"
    THEN UpdateResponse(CredentialsAt(credentials, request.path, ""),
                        request.data.current_password)
    ELSE IF request.method = "POST"
    THEN SessionResponse(CredentialsAt(credentials, request.path, "/sessions"),
                         request.data.password,
                         "Sess_" \o IdDigits[Cardinality(sessions) + 1])
    ELSE ValidateResponse(
             SessionsAt(sessions, request.path),
             ContextMatch(release, SessionsAt(sessions, request.path),
                          request.data, "ipAddresses"),
             ContextMatch(release, SessionsAt(sessions, request.path),
                          request.data, "userAgents"))

\* what the service keeps after it answered: a credential made or its
\* password changed, a session made with its credential and context
CredentialsAfter(credentials, request, response) ==
    IF response.id = Absent THEN credentials
    ELSE IF CredentialsRoute(request)
    THEN credentials \cup {[id |-> response.id.text, password |-> request.data.password]}
    ELSE IF request.method = "PUT"
    THEN {c \in credentials : c.id # response.id.text}
         \cup {[id |-> response.id.text, password |-> request.data.password]}
    ELSE credentials

SessionsAfter(credentials, sessions, request, response) ==
    IF response.id = Absent \/ request.method # "POST" \/ CredentialsRoute(request)
    THEN sessions
    ELSE sessions \cup
         {[id |-> response.id.text,
           credential_id |->
               (CHOOSE c \in CredentialsAt(credentials, request.path, "/sessions") : TRUE).id,
           ip_address |-> request.data.ip_address,
           user_agent |-> request.data.user_agent]}

\* the record of a settled call with what the service held when it answered
ServedFrom(settled, credentials, sessions) ==
    [f \in DOMAIN settled \cup {"credentials", "sessions"} |->
        IF f = "credentials" THEN credentials
        ELSE IF f = "sessions" THEN sessions
        ELSE settled[f]]

\* the ids a program keeps from the calls that returned: the credential id
\* of user(), the session id of session(), with the arguments of the call
Kept(kept, call, outcome) ==
    IF outcome.kind = "return" /\ call.op \in {"user", "session"}
    THEN Append(kept, [op |-> call.op, instance |-> call.instance, args |-> call.args,
                       id |-> outcome.value.props.id.text])
    ELSE kept

ServeWith(k, response) ==
    /\ sdk_outcome' = ServedFrom(Answer(sdk_build, log_level, pending[k], k - 1, response),
                                 server_credentials, server_sessions)
    /\ trace' = trace \o debug(log_level,
                                [fn |-> pending[k].op, args |-> <<response>>]).lines
    /\ server_credentials' =
           CredentialsAfter(server_credentials, pending[k].request, response)
    /\ server_sessions' =
           SessionsAfter(server_credentials, server_sessions, pending[k].request, response)
    /\ history' = Kept(history, pending[k], sdk_outcome'.outcome)
    /\ pending' = Without(pending, k)
    /\ UNCHANGED <<ipVars, uaVars, log_level, sdk_build, urlVars, instances>>

\* the service answers the k-th request in flight and its response arrives
Serve(k) ==
    /\ k \in 1..Len(pending)
    /\ ServeWith(k, ServiceResponse(server_credentials, server_sessions, ipRelease,
                                    pending[k].request))

(***************************************************************************)
(* A program that signs up, signs in, validates sessions and changes       *)
(* passwords against the service, awaiting each call, with right and wrong *)
(* passwords, known and unknown ids and two client addresses.              *)
(***************************************************************************)
FlowPasswords == {"Passw0rd!", "WrongPassword!"}
FlowCredentialIds == {"Auth_U1-1", "Auth_U1-0"}
FlowSessionIds == {"Sess_1", "Sess_2", "invalid-session-id"}
FlowIps == {V4(95, 107, 167, 200), V4(8, 8, 8, 8)}
FlowUas ==
    { <<Lex("Mozilla", 5), Lex("X11", 0), Lex("Linux", 0), Lex("x86_64", 0),
        Lex("AppleWebKit", 537), Lex("KHTML, like Gecko", 0),
        Lex("Chrome", 1), Lex("Safari", 537)>> }

FlowCall(i) ==
    \/ \E password \in FlowPasswords :
           /\ Cardinality(server_credentials) < MaxCredentials
           /\ CallUser(i, password)
    \/ \E credential_id \in FlowCredentialIds, current \in FlowPasswords,
          password \in FlowPasswords :
           CallUpdatePassword(i, credential_id, current, password)
    \/ \E credential_id \in FlowCredentialIds, password \in FlowPasswords,
          ip_address \in FlowIps, user_agent \in FlowUas :
           /\ Cardinality(server_sessions) < MaxSessions
           /\ CallSession(i, credential_id, password, ip_address, user_agent)
    \/ \E id \in FlowSessionIds, ip_address \in FlowIps, user_agent \in FlowUas :
           CallValidate(i, id, ip_address, user_agent)

NextService ==
    \/ \E collection_id \in CollectionIds, access_key \in AccessKeys :
           Construct(collection_id, access_key)
    \/ \E i \in 1..Len(instances) : pending = <<>> /\ FlowCall(i)
    \/ \E k \in 1..Len(pending) : Serve(k)

SpecService == InitSdk /\ [][NextService]_vars

(***************************************************************************)
(* Calls of the two comparisons by any number of callers, in any order,    *)
(* between assignments of the base URL and constructions of Collection     *)
(* instances.  A call runs to its end before the next statement of the     *)
(* program starts; `history` lists the calls made.                         *)
(***************************************************************************)
MaxCalls == 2

CallIpTexts == {V4(8, 8, 8, 8), V4(192, 168, 1, 1)}

CallUaTexts ==
    { <<Lex("Mozilla", 5), Lex("X11", 0), Lex("Linux", 0), Lex("x86_64", 0),
        Lex("AppleWebKit", 537), Lex("KHTML, like Gecko", 0),
        Lex("Chrome", 1), Lex("Safari", 537)>>,
      <<Lex("Mozilla", 5), Lex("X11", 0), Lex("Linux", 0), Lex("x86_64", 0),
        Lex("rv", 1), Lex("Gecko", 20100101), Lex("Firefox", 1)>> }

Made(fn, request, session, outcome) ==
    [fn |-> fn, request |-> request, session |-> session, outcome |-> outcome]

\* the verdict a call would take from a cache keyed by the session address:
\* that of the first earlier call for it, else the fresh one
RECURSIVE CachedBySession(_, _, _, _)
CachedBySession(made, k, session, fresh) ==
    IF k > Len(made) THEN fresh
    ELSE IF made[k].fn = "ipAddresses" /\ made[k].session = session THEN made[k].outcome
    ELSE CachedBySession(made, k + 1, session, fresh)

\* a slip that keeps the verdicts in a table of the module by session address
CompareIp_CachedBySession(request, session) ==
    /\ Len(history) < MaxCalls
    /\ request_ip' = request
    /\ session_ip' = session
    /\ ip_outcome' = CachedBySession(history, 1, session,
                                     ipAddresses(ipRelease, request, session))
    /\ trace' = trace \o debug(log_level, IpLine(request, session)).lines
    /\ history' = Append(history, Made("ipAddresses", request, session, ip_outcome'))
    /\ UNCHANGED <<ipRelease, uaVars, log_level, sdkVars>>

\* compare.ipAddresses(request, session), called by any caller
CompareIp(request, session) ==
    /\ Len(history) < MaxCalls
    /\ request_ip' = request
    /\ session_ip' = session
    /\ ip_outcome' = Then(debug(log_level, IpLine(request, session)),
                          ipAddresses(ipRelease, request, session))
    /\ trace' = trace \o debug(log_level, IpLine(request, session)).lines
    /\ history' = Append(history, Made("ipAddresses", request, session, ip_outcome'))
    /\ UNCHANGED <<ipRelease, uaVars, log_level, sdkVars>>

\* compare.userAgents(request, session), called by any caller
CompareUa(request, session) ==
    /\ Len(history) < MaxCalls
    /\ request_user_agent' = request
    /\ session_user_agent' = session
    /\ ua_outcome' = Then(debug(log_level, UaLine(request, session)),
                          userAgents(request, session))
    /\ trace' = trace \o debug(log_level, UaLine(request, session)).lines
    /\ history' = Append(history, Made("userAgents", request, session, ua_outcome'))
    /\ UNCHANGED <<ipVars, log_level, sdkVars>>

InitCalls ==
    /\ ipRelease \in IpReleases
    /\ request_ip = <<>>
    /\ session_ip = <<>>
    /\ ip_outcome = NoCall
    /\ request_user_agent = <<>>
    /\ session_user_agent = <<>>
    /\ ua_outcome = NoCall
    /\ log_level \in {"fatal", "debug"}
    /\ trace = <<>>
    /\ \E build \in SdkBuilds : Loaded(build)

NextCalls ==
    \/ \E request \in CallIpTexts, session \in CallIpTexts : CompareIp(request, session)
    \/ \E request \in CallUaTexts, session \in CallUaTexts : CompareUa(request, session)
    \/ \E url \in BaseUrls : AssignConfig(url)
    \/ \E url \in BaseUrls : AssignExport(url)
    \/ \E collection_id \in CollectionIds, access_key \in AccessKeys :
           Construct(collection_id, access_key)

SpecCalls == InitCalls /\ [][NextCalls]_vars

(***************************************************************************)
(* The legacy CommonJS implementation (src/src/index.ts:279-492), operation *)
(* by operation as it is written there.                                    *)
(***************************************************************************)

\* a slip of the legacy check that looks at the status only
cjs_error_check_StatusOnly(response) ==
    IF Truthy(response.status)
    THEN Throw(ToText(response.status) \o " " \o ToText(response.error) \o ": "
               \o ToText(response.message))
    ELSE Return("void")

\* error_check(response), lines 293-296
cjs_error_check(response) ==
    IF Truthy(response.status) \/ Truthy(response.error)
    THEN Throw(ToText(response.status) \o " " \o ToText(response.error) \o ": "
               \o ToText(response.message))
    ELSE Return("void")

\* new User(data) / new Session(data), lines 411-435: the classes declare
\* nothing, Object.entries(data).map assigns each entry
cjs_Container(class, data) ==
    [class |-> class,
     own |-> {k \in DOMAIN data : data[k] # Absent},
     props |-> [k \in DOMAIN data |-> data[k]]]

\* the methods of Collection after their await (lines 314, 345-347, 362-364,
\* 382-384, 401-403)
cjs_Settle(level, op, response) ==
    IF op = "create" THEN Return(response)
    ELSE IF debug(level, [fn |-> op, args |-> <<response>>]).kind = "throw"
    THEN Throw(debug(level, [fn |-> op, args |-> <<response>>]).value)
    ELSE IF cjs_error_check(response).kind = "throw" THEN cjs_error_check(response)
    ELSE IF op \in {"user", "update_password"}
    THEN Return(cjs_Container("User", response))
    ELSE Return(cjs_Container("Session", response))

\* http_client.create(public_vars.API_BASE_URL, {headers}): lines 309-313
\* without and lines 328-333 with the Authorization header
cjs_Client(url, access_key) ==
    [base |-> url,
     headers |-> [content_type |-> "application/json",
                  authorization |-> IF access_key = NoHeader THEN NoHeader
                                    ELSE "Authentic " \o access_key]]

\* the request each method sends (lines 314, 342-344, 358-361, 377-381,
\* 397-400) through the client `api` of its instance
cjs_Request(api, collection_id, op, args) ==
    IF op = "create"
    THEN [method |-> "POST", base |-> api.base, path |-> "/collections",
          headers |-> api.headers, data |-> <<>>]
    ELSE IF op = "user"
    THEN [method |-> "POST", base |-> api.base,
          path |-> "/collections/" \o collection_id \o "/credentials",
          headers |-> api.headers, data |-> [password |-> args[1]]]
    ELSE IF op = "update_password"
    THEN [method |-> "PUT", base |-> api.base, path |-> "/credentials/" \o args[1],
          headers |-> api.headers,
          data |-> [current_password |-> args[2], password |-> args[3]]]
    ELSE IF op = "session"
    THEN [method |-> "POST", base |-> api.base,
          path |-> "/credentials/" \o args[1] \o "/sessions",
          headers |-> api.headers,
          data |-> [password |-> args[2], ip_address |-> args[3],
                    user_agent |-> args[4]]]
    ELSE [method |-> "GET", base |-> api.base, path |-> "/sessions/" \o args[1],
          headers |-> api.headers,
          data |-> [ip_address |-> args[2], user_agent |-> args[3]]]

\* compare.userAgents after the two getResult calls (lines 454-466)
cjs_userAgentsParsed(level, request_ua_text, session_ua_text, request_ua, session_ua) ==
    IF debug(level, [fn |-> "userAgents",
                     args |-> <<request_ua_text, session_ua_text,
                                <<request_ua.cpu.architecture, session_ua.cpu.architecture,
                                  request_ua.os.name, session_ua.os.name,
                                  request_ua.browser.name, session_ua.browser.name>>>>]).kind
           = "throw"
    THEN Throw("log")
    ELSE IF \/ request_ua.cpu.architecture # session_ua.cpu.architecture
            \/ request_ua.os.name # session_ua.os.name
            \/ request_ua.browser.name # session_ua.browser.name
    THEN Return(FALSE)
    ELSE Return(TRUE)

\* compare.userAgents(request_ua_text, session_ua_text), lines 450-467
cjs_userAgents(level, request_ua_text, session_ua_text) ==
    IF getResult(request_ua_text).kind = "throw" THEN getResult(request_ua_text)
    ELSE IF getResult(session_ua_text).kind = "throw" THEN getResult(session_ua_text)
    ELSE cjs_userAgentsParsed(level, request_ua_text, session_ua_text,
                              getResult(request_ua_text).value,
                              getResult(session_ua_text).value)

\* compare.ipAddresses(request_ip_address, session_ip_address), lines 476-480
cjs_ipAddresses(level, release, request_ip_address, session_ip_address) ==
    IF debug(level, [fn |-> "ipAddresses",
                     args |-> <<Format2020(request_ip_address), session_ip_address>>]).kind
           = "throw"
    THEN Throw("log")
    ELSE IF isPrivate(release, session_ip_address).kind = "throw"
    THEN isPrivate(release, session_ip_address)
    ELSE IF isPrivate(release, session_ip_address).value THEN Return(TRUE)
    ELSE isEqual(request_ip_address, session_ip_address)

(***************************************************************************)
(* A program that uses every operation of the module: the two comparisons  *)
(* and the methods of Collection, each call awaited, answered by any body  *)
(* or failing; it compares one pair of addresses or of user agents.        *)
(***************************************************************************)
NextEquiv ==
    \/ \E request \in CallIpTexts, session \in CallIpTexts :
           history = <<>> /\ CompareIp(request, session)
    \/ \E request \in CallUaTexts, session \in CallUaTexts :
           history = <<>> /\ CompareUa(request, session)
    \/ \E collection_id \in CollectionIds, access_key \in AccessKeys :
           Construct(collection_id, access_key)
    \/ pending = <<>> /\ CallCreate
    \/ \E i \in 1..Len(instances) : pending = <<>> /\ EachMethod(i)
    \/ \E k \in 1..Len(pending), response \in ApiResponses : Respond(k, response)
    \/ \E k \in 1..Len(pending) : Reject(k)

SpecEquiv == InitSdk /\ [][NextEquiv]_vars

(***************************************************************************)
(* What the claims mean by an address, independent of the `ip` package.    *)
(***************************************************************************)

\* four decimal octets 0..255 without leading zeros
CanonicalV4(s) ==
    LET parts == Split(s, ".")
    IN /\ Len(parts) = 4
       /\ \A k \in 1..4 :
             /\ IsOctetText(parts[k])
             /\ ParseInt(parts[k], 10) <= 255
             /\ Dec(ParseInt(parts[k], 10)) = parts[k]

OctetsOf(s) == [k \in 1..4 |-> ParseInt(Split(s, ".")[k], 10)]

WordsOf(s) == (CHOOSE e \in V6Table : e.text = s).words

ValidAddress(s) == CanonicalV4(s) \/ s \in V6Texts

\* 10.0.0.0/8, 172.16.0.0/12, 192.168.0.0/16, 127.0.0.0/8
InPrivateBlocks(o) ==
    \/ o[1] = 10
    \/ o[1] = 172 /\ o[2] \in 16..31
    \/ o[1] = 192 /\ o[2] = 168
    \/ o[1] = 127

PrivateV4(s) == CanonicalV4(s) /\ InPrivateBlocks(OctetsOf(s))

\* private or reserved: the four blocks, link-local 169.254.0.0/16, and for
\* IPv6 ::1, ::, fc00::/7, fe80::/10 and the mapped form of such an IPv4
ReservedAddress(s) ==
    IF CanonicalV4(s)
    THEN InPrivateBlocks(OctetsOf(s)) \/ (OctetsOf(s)[1] = 169 /\ OctetsOf(s)[2] = 254)
    ELSE /\ s \in V6Texts
         /\ LET w == WordsOf(s)
            IN \/ w \in {<<0, 0, 0, 0, 0, 0, 0, 1>>, <<0, 0, 0, 0, 0, 0, 0, 0>>}
               \/ w[1] \in 64512..65023
               \/ w[1] \in 65152..65215
               \/ /\ \A k \in 1..5 : w[k] = 0
                  /\ w[6] = 65535
                  /\ InPrivateBlocks(<<w[7] \div 256, w[7] % 256,
                                       w[8] \div 256, w[8] % 256>>)

PublicAddress(s) == ValidAddress(s) /\ ~ReservedAddress(s)

\* one address in two texts: the same octets, the same words, or an IPv4
\* address and the IPv6 address that embeds it (::ffff:a.b.c.d, ::a.b.c.d)
SameAddress(r, s) ==
    IF CanonicalV4(r) /\ CanonicalV4(s) THEN OctetsOf(r) = OctetsOf(s)
    ELSE IF r \in V6Texts /\ s \in V6Texts THEN WordsOf(r) = WordsOf(s)
    ELSE LET v4 == IF CanonicalV4(r) THEN OctetsOf(r) ELSE OctetsOf(s)
             w == IF CanonicalV4(r) THEN WordsOf(s) ELSE WordsOf(r)
         IN /\ \A k \in 1..5 : w[k] = 0
            /\ w[6] \in {0, 65535}
            /\ w[7] = v4[1] * 256 + v4[2]
            /\ w[8] = v4[3] * 256 + v4[4]

IpCalled == ip_outcome.kind # "none"
UaCalled == ua_outcome.kind # "none"

(***************************************************************************)
(* Claims on compare.ipAddresses, checked under SpecIp.                    *)
(***************************************************************************)

\* C1: when session_ip is an address of 10.0.0.0/8, 172.16.0.0/12,
\* 192.168.0.0/16 or 127.0.0.0/8, compare.ipAddresses returns true for every
\* syntactically valid request_ip.
C1_PrivateSessionMatchesAnyRequest ==
    (IpCalled /\ ValidAddress(request_ip) /\ PrivateV4(session_ip))
        => ip_outcome = Return(TRUE)

\* a public request address was accepted against a session made at 192.168.1.1
C1_Witness ==
    /\ request_ip = V4(8, 8, 8, 8)
    /\ session_ip = V4(192, 168, 1, 1)
    /\ ip_outcome = Return(TRUE)

\* C2: when session_ip is a public address, compare.ipAddresses returns true
\* if request_ip is the same address and false if it is a different address.
C2_PublicSessionNeedsSameAddress ==
    (IpCalled /\ ValidAddress(request_ip) /\ PublicAddress(session_ip))
        => ip_outcome = Return(SameAddress(request_ip, session_ip))

\* a different public address was rejected against a public session address
C2_Witness ==
    /\ request_ip = V4(95, 107, 167, 200)
    /\ session_ip = V4(8, 8, 8, 8)
    /\ ip_outcome = Return(FALSE)

\* C3: the comparison depends on the order of its arguments: with a private
\* address p and a public address q, ipAddresses(q, p) is true and
\* ipAddresses(p, q) is false; a private request_ip gets no bypass.
C3_OnlySessionGatesBypass ==
    /\ (IpCalled /\ PublicAddress(request_ip) /\ PrivateV4(session_ip))
           => ip_outcome = Return(TRUE)
    /\ (IpCalled /\ PrivateV4(request_ip) /\ PublicAddress(session_ip))
           => ip_outcome = Return(FALSE)

\* a private request address was rejected against a public session address
C3_Witness ==
    /\ request_ip = V4(192, 168, 1, 1)
    /\ session_ip = V4(8, 8, 8, 8)
    /\ ip_outcome = Return(FALSE)

\* C7: compare.ipAddresses fails closed on malformed address texts: a call in
\* which request_ip or session_ip is malformed never returns true.
C7_MalformedNeverMatches ==
    (IpCalled /\ (request_ip \in MalformedTexts \/ session_ip \in MalformedTexts))
        => ip_outcome # Return(TRUE)

\* C8: compare.ipAddresses never raises: every call returns a boolean.
C8_IpAddressesNeverThrows ==
    IpCalled => (ip_outcome.kind = "return" /\ ip_outcome.value \in BOOLEAN)

(***************************************************************************)
(* What the claims mean by the family of a user agent: read off the        *)
(* platform and product parts the text was composed of, not parsed.        *)
(***************************************************************************)
NamesOf(ua) == [i \in 1..Len(ua) |-> ua[i].name]

DeviceNames == {"Pixel"}

\* the names of the lexemes that are no device string, in order
RECURSIVE FamilyNames(_)
FamilyNames(ua) ==
    IF Len(ua) = 0 THEN <<>>
    ELSE IF Head(ua).name \in DeviceNames THEN FamilyNames(Tail(ua))
    ELSE <<Head(ua).name>> \o FamilyNames(Tail(ua))

PlatformOf(ua) ==
    CHOOSE p \in PlatformTexts : \E q \in ProductTexts : ua = <<Lex("Mozilla", 5)>> \o p \o q

ProductOf(ua) ==
    CHOOSE q \in ProductTexts : \E p \in PlatformTexts : ua = <<Lex("Mozilla", 5)>> \o p \o q

Composed(ua) ==
    \E p \in PlatformTexts, q \in ProductTexts : ua = <<Lex("Mozilla", 5)>> \o p \o q

\* operating system and CPU a platform part stands for
OsFamily(p) ==
    IF p = <<>> THEN "none"
    ELSE IF p[1].name = "Windows NT" THEN "Windows"
    ELSE IF p[1].name = "Macintosh" THEN "macOS"
    ELSE IF p[1].name = "X11" THEN "Linux"
    ELSE "Android"

CpuFamily(p) ==
    IF p = <<>> THEN "none"
    ELSE IF p[Len(p)].name \in {"x86_64", "x64"} THEN "64-bit x86"
    ELSE IF p[Len(p)].name = "i686" THEN "32-bit x86"
    ELSE "none"

\* browser a product part stands for
BrowserFamily(q) ==
    IF q = <<>> THEN "none"
    ELSE IF q[Len(q)].name = "Firefox" THEN "Firefox"
    ELSE IF q[3].name = "Chrome" THEN "Chrome"
    ELSE "Safari"

(***************************************************************************)
(* Claims on compare.userAgents, checked under SpecUa.                     *)
(***************************************************************************)

\* C4: compare.userAgents returns true if and only if the two parsed results
\* have equal cpu.architecture, equal os.name and equal browser.name (two
\* unknown values count as equal), and false otherwise.
C4_TrueIffThreeFieldsEqual ==
    UaCalled =>
        LET r == getResult(request_user_agent).value
            s == getResult(session_user_agent).value
        IN ua_outcome = Return(/\ r.cpu.architecture = s.cpu.architecture
                               /\ r.os.name = s.os.name
                               /\ r.browser.name = s.browser.name)

\* two different texts with an unknown architecture on both sides matched
C4_Witness ==
    /\ request_user_agent # session_user_agent
    /\ getCPU(request_user_agent).architecture = Undefined
    /\ getCPU(session_user_agent).architecture = Undefined
    /\ getOS(request_user_agent).name = "Mac OS"
    /\ ua_outcome = Return(TRUE)

\* C5: two user-agent texts that differ only in version numbers or device
\* strings, with the same architecture, OS family and browser family, compare
\* as true.
C5_VersionsAndDevicesIgnored ==
    (UaCalled /\ FamilyNames(request_user_agent) = FamilyNames(session_user_agent))
        => ua_outcome = Return(TRUE)

\* an Android text with a device string matched one of another version
\* without it
C5_Witness ==
    /\ HasLexeme(request_user_agent, DeviceNames)
    /\ ~HasLexeme(session_user_agent, DeviceNames)
    /\ \E i \in 1..Len(session_user_agent) :
           /\ i <= Len(request_user_agent)
           /\ session_user_agent[i].name = request_user_agent[i].name
           /\ session_user_agent[i].version # request_user_agent[i].version
    /\ FamilyNames(request_user_agent) = FamilyNames(session_user_agent)
    /\ ua_outcome = Return(TRUE)

\* C6: compare.userAgents returns false whenever the two user agents differ
\* in browser family, or in operating system, or in CPU: one difference is
\* enough.
C6_AnyFamilyDifferenceRejects ==
    (/\ UaCalled
     /\ Composed(request_user_agent) /\ Composed(session_user_agent)
     /\ \/ BrowserFamily(ProductOf(request_user_agent))
               # BrowserFamily(ProductOf(session_user_agent))
        \/ OsFamily(PlatformOf(request_user_agent))
               # OsFamily(PlatformOf(session_user_agent))
        \/ CpuFamily(PlatformOf(request_user_agent))
               # CpuFamily(PlatformOf(session_user_agent)))
        => ua_outcome = Return(FALSE)

\* Chrome on 64-bit Linux was rejected against Firefox on 64-bit Linux: the
\* browser is the only difference
C6_Witness ==
    /\ Composed(request_user_agent) /\ Composed(session_user_agent)
    /\ PlatformOf(request_user_agent) = PlatformOf(session_user_agent)
    /\ OsFamily(PlatformOf(request_user_agent)) = "Linux"
    /\ BrowserFamily(ProductOf(request_user_agent)) = "Chrome"
    /\ BrowserFamily(ProductOf(session_user_agent)) = "Firefox"
    /\ ua_outcome = Return(FALSE)

\* C9: compare.userAgents never raises: for every pair of texts, empty and
\* unparseable ones included, the call returns a boolean.
C9_UserAgentsNeverThrows ==
    UaCalled => (ua_outcome.kind = "return" /\ ua_outcome.value \in BOOLEAN)

\* the empty text was compared with a text no pattern matches
C9_Witness ==
    /\ request_user_agent = <<>>
    /\ session_user_agent = <<Lex("junk", 0)>>
    /\ ua_outcome.kind = "return"

\* C10: compare.userAgents is reflexive: userAgents(a, a) is true for every
\* text a.
C10_Reflexive ==
    (UaCalled /\ request_user_agent = session_user_agent)
        => ua_outcome = Return(TRUE)

\* a text naming an architecture, an OS and a browser was compared with itself
C10_Witness ==
    /\ request_user_agent = session_user_agent
    /\ getCPU(request_user_agent).architecture = "amd64"
    /\ getOS(request_user_agent).name = "Linux"
    /\ getBrowser(request_user_agent).name = "Chrome"
    /\ ua_outcome = Return(TRUE)

\* C11: compare.userAgents is symmetric: for all texts a and b,
\* userAgents(a, b) equals userAgents(b, a).
C11_Symmetric ==
    UaCalled => ua_outcome = userAgents(session_user_agent, request_user_agent)

\* a text with all fields known was rejected against one with no field known,
\* the pair in which a one-sided test would differ by the order
C11_Witness ==
    /\ getBrowser(request_user_agent).name # Undefined
    /\ getOS(request_user_agent).name # Undefined
    /\ getCPU(request_user_agent).architecture # Undefined
    /\ getBrowser(session_user_agent).name = Undefined
    /\ getOS(session_user_agent).name = Undefined
    /\ getCPU(session_user_agent).architecture = Undefined
    /\ ua_outcome = Return(FALSE)

(***************************************************************************)
(* Textual forms of an address: an IPv4 address may be written with        *)
(* leading zeros in octets of at most three digits, read as decimal.       *)
(***************************************************************************)
DecimalV4(s) ==
    LET parts == Split(s, ".")
    IN /\ Len(parts) = 4
       /\ \A k \in 1..4 : IsOctetText(parts[k]) /\ ParseInt(parts[k], 10) <= 255

AddressForm(s) == DecimalV4(s) \/ s \in V6Texts

PublicForm(s) ==
    IF DecimalV4(s)
    THEN /\ ~InPrivateBlocks(OctetsOf(s))
         /\ ~(OctetsOf(s)[1] = 169 /\ OctetsOf(s)[2] = 254)
    ELSE s \in V6Texts /\ ~ReservedAddress(s)

\* the two forms denote one address: equal octets, equal words, or an IPv4
\* address and the IPv6 address that embeds it
SameCanonical(r, s) ==
    IF DecimalV4(r) /\ DecimalV4(s) THEN OctetsOf(r) = OctetsOf(s)
    ELSE IF r \in V6Texts /\ s \in V6Texts THEN WordsOf(r) = WordsOf(s)
    ELSE LET v4 == IF DecimalV4(r) THEN OctetsOf(r) ELSE OctetsOf(s)
             w == IF DecimalV4(r) THEN WordsOf(s) ELSE WordsOf(r)
         IN /\ \A k \in 1..5 : w[k] = 0
            /\ w[6] \in {0, 65535}
            /\ w[7] = v4[1] * 256 + v4[2]
            /\ w[8] = v4[3] * 256 + v4[4]

\* C12: for a public session_ip, compare.ipAddresses decides equality on the
\* canonical address, not on the text: two forms of one address (compressed
\* or expanded IPv6, IPv4 octets with or without leading zeros) compare as
\* equal, two forms of different addresses as unequal.
C12_EqualityOnCanonicalAddress ==
    (/\ IpCalled
     /\ AddressForm(request_ip) /\ AddressForm(session_ip)
     /\ PublicForm(session_ip)
     /\ request_ip # session_ip)
        => ip_outcome = Return(SameCanonical(request_ip, session_ip))

\* 8.8.8.8 was accepted against the session address written 008.008.008.008
C12_Witness ==
    /\ request_ip = V4(8, 8, 8, 8)
    /\ session_ip = <<"0", "0", "8", ".", "0", "0", "8", ".", "0", "0", "8", ".",
                      "0", "0", "8">>
    /\ ip_outcome = Return(TRUE)

\* no pattern of the parser sets a compared field of the text
AllFieldsUnknown(ua) ==
    /\ getCPU(ua).architecture = Undefined
    /\ getOS(ua).name = Undefined
    /\ getBrowser(ua).name = Undefined

\* C13: two completely unparseable user-agent texts (all three compared
\* fields unknown in both) compare as equal even when the texts differ:
\* compare.userAgents returns true.
C13_UnparseableTextsMatch ==
    (/\ UaCalled
     /\ AllFieldsUnknown(request_user_agent)
     /\ AllFieldsUnknown(session_user_agent)
     /\ request_user_agent # session_user_agent)
        => ua_outcome = Return(TRUE)

\* the empty text was accepted against the text "curl/1"
C13_Witness ==
    /\ request_user_agent = <<>>
    /\ session_user_agent = <<Lex("curl", 1)>>
    /\ AllFieldsUnknown(session_user_agent)
    /\ ua_outcome = Return(TRUE)

(***************************************************************************)
(* Claims on the diagnostic trace, checked under SpecTrace.                *)
(***************************************************************************)

\* C14: the diagnostic trace of compare.userAgents and compare.ipAddresses
\* never alters the verdict: for the same two inputs the outcome at any
\* level of the logger is the outcome with the logger silent (level fatal).
C14_TraceNeverAltersVerdict ==
    /\ IpCalled =>
           ip_outcome = Then(debug("fatal", IpLine(request_ip, session_ip)),
                             ipAddresses(ipRelease, request_ip, session_ip))
    /\ UaCalled =>
           ua_outcome = Then(debug("fatal", UaLine(request_user_agent, session_user_agent)),
                             userAgents(request_user_agent, session_user_agent))

\* at level debug both comparisons wrote their line and gave their verdicts
C14_Witness ==
    /\ log_level = "debug"
    /\ Len(trace) = 2
    /\ ip_outcome = Return(FALSE)
    /\ ua_outcome = Return(TRUE)
    /\ request_user_agent # <<>>

(***************************************************************************)
(* Claims on calls from many callers, checked under SpecCalls.             *)
(***************************************************************************)

\* every call made so far returned what its own two arguments determine
OwnArgumentsDecide ==
    \A k \in 1..Len(history) :
        /\ history[k].outcome =
               IF history[k].fn = "ipAddresses"
               THEN ipAddresses(ipRelease, history[k].request, history[k].session)
               ELSE userAgents(history[k].request, history[k].session)
        /\ \A j \in 1..Len(history) :
               (/\ history[j].fn = history[k].fn
                /\ history[j].request = history[k].request
                /\ history[j].session = history[k].session)
                   => history[j].outcome = history[k].outcome

\* a step that is a call of one of the two comparisons
ComparisonStep == history' # history

Settled == sdk_outcome # NoCall

Answered == Settled /\ sdk_outcome.answered

\* the service answered with an error: a status or an error that is set
ErrorResponse(r) == Truthy(r.status) \/ Truthy(r.error)

CheckedOps == {"user", "update_password", "session", "validate"}

\* C16: all SDK methods throw an Error for a failed operation: each of
\* Collection.create, user, update_password, session and validate rejects
\* when the service answers with an error response.
C16_EveryMethodRejectsOnError ==
    (Answered /\ ErrorResponse(sdk_outcome.response))
        => sdk_outcome.outcome.kind = "throw"

\* C17: for user, update_password, session and validate an Error is thrown
\* if the response contains a status property or an error property, whatever
\* its value, and none is thrown when it contains neither.
C17_ThrowsIffStatusOrErrorPresent ==
    (Answered /\ sdk_outcome.op \in CheckedOps)
        => (sdk_outcome.outcome.kind = "throw"
              <=> (\/ sdk_outcome.response.status # Absent
                   \/ sdk_outcome.response.error # Absent))

\* the text of a field in the message: its value, "undefined" when absent
Shown(v) == IF v = Absent THEN "undefined" ELSE v.text

\* C18: the Error thrown for an error response has the message
\* `${status} ${error}: ${message}` built from the three fields of the
\* response, also when one of them is absent.
C18_MessageFromThreeFields ==
    (Answered /\ sdk_outcome.outcome.kind = "throw")
        => sdk_outcome.outcome.value =
               Shown(sdk_outcome.response.status) \o " "
                   \o Shown(sdk_outcome.response.error) \o ": "
                   \o Shown(sdk_outcome.response.message)

\* session() was rejected with "401 Unauthorized: undefined": the response
\* had no message
C18_Witness ==
    /\ Answered
    /\ sdk_outcome.op = "session"
    /\ sdk_outcome.response.message = Absent
    /\ sdk_outcome.outcome = Throw("401 Unauthorized: undefined")

\* the context the service recorded for the session a validate call names
RecordedFor(id) == {s \in server_sessions : s.id = id}

Compared(fn, request, session) ==
    \E k \in 1..Len(history) :
        /\ history[k].fn = fn
        /\ history[k].request = request
        /\ history[k].session = session

\* C20: every validate() call compares the current request context with the
\* context recorded for the session, using compare.ipAddresses for the IP
\* address and compare.userAgents for the user agent, and throws when either
\* comparison reports a mismatch.
C20_ValidateComparesContext ==
    (Answered /\ sdk_outcome.op = "validate")
        => \A s \in RecordedFor(sdk_outcome.args[1]) :
               /\ Compared("ipAddresses", sdk_outcome.args[2], s.ip_address)
               /\ Compared("userAgents", sdk_outcome.args[3], s.user_agent)
               /\ (\/ ipAddresses(ipRelease, sdk_outcome.args[2], s.ip_address)
                          = Return(FALSE)
                   \/ userAgents(sdk_outcome.args[3], s.user_agent) = Return(FALSE))
                      => sdk_outcome.outcome.kind = "throw"

(***************************************************************************)
(* Claims on the base URL, checked under SpecConfig.                       *)
(***************************************************************************)

\* C19: the base URL is changed by assigning to the exported API_BASE_URL:
\* an instance constructed after the assignment sends its requests to the
\* assigned URL, and with no assignment at all the base URL is
\* https://vault.magicauth.ca.
C19_ExportSetsBaseUrl ==
    \A i \in 1..Len(instances) :
        /\ instances[i].built_after.via = "export"
               => instances[i].api.base = instances[i].built_after.url
        /\ instances[i].built_after.via = "none"
               => instances[i].api.base = "https://vault.magicauth.ca"

(***************************************************************************)
(* Claims on the requests of Collection, checked under SpecSdk.            *)
(***************************************************************************)

\* the headers the documentation gives for a request: the static method sends
\* no Authorization header, a method of an instance sends the access key the
\* instance was constructed with; both send the JSON content type
HeadersAsDocumented(op, instance, request) ==
    /\ request.headers.content_type = "application/json"
    /\ request.headers.authorization =
           IF op = "create" THEN "<none>"
           ELSE "Authentic " \o instances[instance].access_key

\* C21: every request issued by a Collection instance (user, update_password,
\* session, validate) carries the header `Authorization: Authentic
\* <access_key>` with the access key given to that instance's constructor,
\* the request of Collection.create carries no Authorization header, and
\* both carry `Content-Type: application/json`.
C21_RequestHeaders ==
    /\ \A k \in 1..Len(pending) :
           HeadersAsDocumented(pending[k].op, pending[k].instance, pending[k].request)
    /\ Settled =>
           HeadersAsDocumented(sdk_outcome.op, sdk_outcome.instance, sdk_outcome.request)

\* a session() call of an instance constructed with key_2 was settled, and
\* an anonymous Collection.create() is in flight
C21_Witness ==
    /\ Settled
    /\ sdk_outcome.op = "session"
    /\ instances[sdk_outcome.instance].access_key = "key_2"
    /\ sdk_outcome.request.headers.authorization = "Authentic key_2"
    /\ Len(pending) = 1
    /\ pending[1].op = "create"
    /\ pending[1].request.headers.authorization = "<none>"

\* the request API_CONTRACT.md documents for a method of an instance, from
\* the arguments of the call
DocumentedMethod(op) ==
    IF op = "update_password" THEN "PUT"
    ELSE IF op = "validate" THEN "GET"
    ELSE "POST"

DocumentedPath(op, instance, args) ==
    IF op = "user"
    THEN "/collections/" \o instances[instance].collection_id \o "/credentials"
    ELSE IF op = "update_password" THEN "/credentials/" \o args[1]
    ELSE IF op = "session" THEN "/credentials/" \o args[1] \o "/sessions"
    ELSE "/sessions/" \o args[1]

DocumentedData(op, args) ==
    IF op = "user" THEN [password |-> args[1]]
    ELSE IF op = "update_password"
    THEN [current_password |-> args[2], password |-> args[3]]
    ELSE IF op = "session"
    THEN [password |-> args[2], ip_address |-> args[3], user_agent |-> args[4]]
    ELSE [ip_address |-> args[2], user_agent |-> args[3]]

RequestAsDocumented(op, instance, args, request) ==
    op \in CheckedOps =>
        /\ request.method = DocumentedMethod(op)
        /\ request.path = DocumentedPath(op, instance, args)
        /\ request.data = DocumentedData(op, args)

\* C22: each Collection method issues the documented request: user(password)
\* is POST /collections/{collection_id}/credentials with body {password};
\* update_password(id, cur, new) is PUT /credentials/{id} with body
\* {current_password, password}; session(id, pw, ip, ua) is POST
\* /credentials/{id}/sessions with body {password, ip_address, user_agent};
\* validate(sid, ip, ua) is GET /sessions/{sid} with {ip_address,
\* user_agent}; the arguments are forwarded unchanged and not swapped.
C22_DocumentedRequests ==
    /\ \A k \in 1..Len(pending) :
           RequestAsDocumented(pending[k].op, pending[k].instance, pending[k].args,
                               pending[k].request)
    /\ Settled =>
           RequestAsDocumented(sdk_outcome.op, sdk_outcome.instance, sdk_outcome.args,
                               sdk_outcome.request)

\* update_password was called with two different passwords and its request
\* settled; a validate call for a session made at another address is in flight
C22_Witness ==
    /\ Settled
    /\ sdk_outcome.op = "update_password"
    /\ sdk_outcome.args[2] # sdk_outcome.args[3]
    /\ sdk_outcome.request.method = "PUT"
    /\ sdk_outcome.request.data.current_password = sdk_outcome.args[2]
    /\ Len(pending) = 1
    /\ pending[1].op = "validate"
    /\ pending[1].request.path = "/sessions/Id_1"

(***************************************************************************)
(* Claims on the data containers, checked under SpecSdk.                   *)
(***************************************************************************)

\* a call settled by returning a User or a Session
ReturnedContainer ==
    /\ Answered
    /\ sdk_outcome.op \in CheckedOps
    /\ sdk_outcome.outcome.kind = "return"

\* the keys the response body has
KeysOf(data) == {k \in DOMAIN data : data[k].type # "absent"}

\* every property of the data reads on the instance as in the data
EveryFieldIntact(instance, data) ==
    \A k \in KeysOf(data) : instance.props[k] = data[k]

ValidatesSessionOf(i, j) ==
    /\ i < j
    /\ history[i].op = "user"
    /\ history[j].op = "session"
    /\ history[j].args[1] = history[i].id
    /\ history[j].args[2] = history[i].args[1]
    /\ sdk_outcome.op = "validate"
    /\ sdk_outcome.instance = history[j].instance
    /\ sdk_outcome.args[1] = history[j].id
    /\ sdk_outcome.args[2] = history[j].args[3]
    /\ sdk_outcome.args[3] = history[j].args[4]

\* C24: after user(password) returned credential id c and session(c,
\* password, ip, ua) returned session id s, a following validate(s, ip, ua)
\* with the same ip and user agent succeeds and returns a Session whose
\* credential.id equals c; this holds again for a second session created
\* later for the same credential.
C24_SessionOfTheFlowValidates ==
    Answered =>
        \A i \in 1..Len(history), j \in 1..Len(history) :
            ValidatesSessionOf(i, j) =>
                /\ sdk_outcome.outcome.kind = "return"
                /\ sdk_outcome.outcome.value.class = "Session"
                /\ sdk_outcome.outcome.value.props.id.text = history[j].id
                /\ sdk_outcome.outcome.value.props.credential.text = history[i].id

\* sign-up, a first session and a second one were made, and validating the
\* second session returned the credential of the sign-up
C24_Witness ==
    /\ Answered
    /\ Len(history) = 3
    /\ history[2].op = "session"
    /\ history[3].op = "session"
    /\ history[3].id # history[2].id
    /\ ValidatesSessionOf(1, 3)
    /\ sdk_outcome.outcome.kind = "return"
    /\ sdk_outcome.outcome.value.props.credential.text = "Auth_U1-1"

\* the last settled call was made with a password that was not the one the
\* service held for the credential named
WrongPasswordGiven(given) ==
    \E c \in sdk_outcome.credentials :
        c.id = sdk_outcome.args[1] /\ c.password # given

\* C25: session with a wrong password, validate with an unknown session id,
\* and update_password with a wrong current password each reject (throw);
\* in none of these cases is a Session or User object constructed from the
\* error response and returned to the caller.
C25_FailedOperationsReject ==
    Answered =>
        /\ (sdk_outcome.op = "session" /\ WrongPasswordGiven(sdk_outcome.args[2]))
               => sdk_outcome.outcome.kind = "throw"
        /\ (/\ sdk_outcome.op = "validate"
            /\ \A s \in sdk_outcome.sessions : s.id # sdk_outcome.args[1])
               => sdk_outcome.outcome.kind = "throw"
        /\ (sdk_outcome.op = "update_password" /\ WrongPasswordGiven(sdk_outcome.args[2]))
               => sdk_outcome.outcome.kind = "throw"

\* after a sign-up and a session, session() with another password was
\* rejected with the service's 401
C25_Witness ==
    /\ Answered
    /\ Len(history) = 2
    /\ sdk_outcome.op = "session"
    /\ sdk_outcome.args[1] = history[1].id
    /\ WrongPasswordGiven(sdk_outcome.args[2])
    /\ sdk_outcome.outcome = Throw("401 Unauthorized: Invalid password")

(***************************************************************************)
(* Claims on the edges of the private ranges, checked under SpecIp.        *)
(***************************************************************************)

\* an IPv4 address next to a private or reserved block and outside all of
\* them: 9.x and 11.x, 126.x and 128.x, 172.15.x and 172.32.x, 192.167.x and
\* 192.169.x, 169.253.x and 169.255.x
JustOutside(s) ==
    /\ CanonicalV4(s)
    /\ ~InPrivateBlocks(OctetsOf(s))
    /\ ~(OctetsOf(s)[1] = 169 /\ OctetsOf(s)[2] = 254)
    /\ \/ OctetsOf(s)[1] \in {9, 11, 126, 128}
       \/ OctetsOf(s)[1] = 172 /\ OctetsOf(s)[2] \in {15, 32}
       \/ OctetsOf(s)[1] = 192 /\ OctetsOf(s)[2] \in {167, 169}
       \/ OctetsOf(s)[1] = 169 /\ OctetsOf(s)[2] \in {253, 255}

\* C26: the private-address bypass of compare.ipAddresses applies only
\* inside the private/reserved ranges: for a session_ip just outside them
\* (11.0.0.1, 172.15.255.255, 172.32.0.0, 192.167.255.255, 192.169.0.0,
\* 128.0.0.1) the result is true only when request_ip is the same address,
\* never for a different request_ip.
C26_NoBypassJustOutside ==
    (IpCalled /\ ValidAddress(request_ip) /\ JustOutside(session_ip))
        => /\ ip_outcome.kind = "return"
           /\ ip_outcome.value = SameAddress(request_ip, session_ip)

\* the private address 10.0.0.1 was rejected against the session address
\* 172.32.0.0, one past the end of 172.16.0.0/12
C26_Witness ==
    /\ request_ip = V4(10, 0, 0, 1)
    /\ session_ip = V4(172, 32, 0, 0)
    /\ JustOutside(session_ip)
    /\ ip_outcome = Return(FALSE)

\* an instance constructed after config.API_BASE_URL was set uses the URL
\* set, and so does every request of it, whatever was assigned since
BaseUrlOfConstruction ==
    /\ \A i \in 1..Len(instances) :
           (instances[i].built_after.via = "config" /\ instances[i].built_after.made)
               => instances[i].api.base = instances[i].built_after.url
    /\ \A k \in 1..Len(pending) :
           pending[k].op # "create"
               => pending[k].request.base = instances[pending[k].instance].api.base

\* a step that assigns a base URL property
AssignmentStep == assignment' # assignment

\* a step in which Collection.create() is called
CreateStep ==
    /\ Len(pending') = Len(pending) + 1
    /\ pending'[Len(pending')].op = "create"

\* C27: a Collection instance's base URL is fixed when it is constructed:
\* setting config.API_BASE_URL before `new Collection(...)` makes that
\* instance use the new URL, while changing config.API_BASE_URL after
\* construction leaves the URL of every already constructed instance
\* unchanged; Collection.create reads config.API_BASE_URL at the time of
\* each call.
C27_BaseUrlFixedAtConstruction ==
    /\ []BaseUrlOfConstruction
    /\ [][AssignmentStep => instances' = instances]_vars
    /\ [][CreateStep => pending'[Len(pending')].request.base = base_url]_vars

\* an instance was constructed after config.API_BASE_URL was set to the
\* local URL; the property was then set back, and a user() call of the
\* instance goes to the local URL while a Collection.create() made after it
\* goes to the default one
C27_Witness ==
    /\ Len(instances) = 1
    /\ instances[1].built_after.via = "config"
    /\ instances[1].api.base = "http://localhost:2884"
    /\ assignment.via = "config"
    /\ assignment.outcome.kind = "return"
    /\ base_url = "https://vault.magicauth.ca"
    /\ Len(pending) = 2
    /\ pending[1].op = "user"
    /\ pending[1].request.base = "http://localhost:2884"
    /\ pending[2].op = "create"
    /\ pending[2].request.base = "https://vault.magicauth.ca"

(***************************************************************************)
(* Claims on calls in flight at once, checked under SpecFlight.            *)
(***************************************************************************)

\* the message of the Error for an error response
MessageOf(r) == Shown(r.status) \o " " \o Shown(r.error) \o ": " \o Shown(r.message)

\* the last settled call was settled by its own response and by the kind of
\* its own method: Collection.create hands the body back, user rejects on
\* an error body and else returns a User of the body, session a Session
SettledByOwnResponse ==
    IF ~sdk_outcome.answered THEN sdk_outcome.outcome.kind = "throw"
    ELSE IF sdk_outcome.op = "create"
    THEN sdk_outcome.outcome = Return(sdk_outcome.response)
    ELSE IF ErrorResponse(sdk_outcome.response)
    THEN sdk_outcome.outcome = Throw(MessageOf(sdk_outcome.response))
    ELSE /\ sdk_outcome.outcome.kind = "return"
         /\ "class" \in DOMAIN sdk_outcome.outcome.value
         /\ sdk_outcome.outcome.value.class =
                (IF sdk_outcome.op \in {"user", "update_password"}
                 THEN "User" ELSE "Session")
         /\ EveryFieldIntact(sdk_outcome.outcome.value, sdk_outcome.response)

\* C28: several calls in flight at once on the same Collection instance do
\* not interfere: under any interleaving of their requests and responses,
\* each call resolves or rejects according to its own response only, and no
\* call changes the instance's collection_id, access_key or HTTP client.
C28_CallsInFlightDoNotInterfere ==
    /\ [](Settled => SettledByOwnResponse)
    /\ [][\A i \in 1..Len(instances) : instances'[i] = instances[i]]_vars

\* session() was made after user() on the same instance and rejected on its
\* error response while user() was still in flight
C28_Witness ==
    /\ Settled
    /\ sdk_outcome.op = "session"
    /\ sdk_outcome.ahead = 1
    /\ sdk_outcome.outcome.kind = "throw"
    /\ Len(pending) = 1
    /\ pending[1].op = "user"
    /\ pending[1].instance = sdk_outcome.instance

(***************************************************************************)
(* Claims on the steps of one call, checked under SpecSdk.                 *)
(***************************************************************************)

\* the requests sent so far for the calls in flight and for the settled call
OneRequestEach ==
    /\ \A k \in 1..Len(pending) : pending[k].sent = 1
    /\ Settled => sdk_outcome.sent = 1

\* a User or Session was handed back only for a response that arrived and
\* passed the error check; a failed request handed back an Error
CheckedBeforeContainer ==
    (Settled /\ sdk_outcome.op \in CheckedOps) =>
        /\ sdk_outcome.outcome.kind = "return"
               => (sdk_outcome.answered /\ ~ErrorResponse(sdk_outcome.response))
        /\ ~sdk_outcome.answered => sdk_outcome.outcome.kind = "throw"

\* C30: each call of user, update_password, session or validate sends
\* exactly one HTTP request (no retry, no second request on error), checks
\* the response for an error after it has arrived and before any User or
\* Session is constructed, and rejects without constructing a container when
\* the HTTP request is rejected.
C30_OneRequestThenCheckThenContainer ==
    /\ [](OneRequestEach /\ CheckedBeforeContainer)
    /\ [][Len(pending') > Len(pending) => sdk_outcome' = sdk_outcome]_vars

\* the request of validate() failed and the call rejected
C30_Witness ==
    /\ Settled
    /\ sdk_outcome.op = "validate"
    /\ ~sdk_outcome.answered
    /\ sdk_outcome.sent = 1
    /\ sdk_outcome.outcome.kind = "throw"

(***************************************************************************)
(* Claims on the two implementations in the file, checked under SpecEquiv: *)
(* the TypeScript implementation ran, the legacy one is evaluated on the   *)
(* same call and the same response.                                        *)
(***************************************************************************)

\* the instance a call was made on; the static method has none
ApiOf(i) == IF i = 0 THEN cjs_Client(base_url, NoHeader)
            ELSE cjs_Client(instances[i].api.base, instances[i].access_key)

CollectionIdOf(i) == IF i = 0 THEN "" ELSE instances[i].collection_id

\* the legacy implementation sends the request the TypeScript one sent
SameRequest(call) ==
    call.request = cjs_Request(ApiOf(call.instance), CollectionIdOf(call.instance),
                               call.op, call.args)

\* the two comparisons answer alike
SameComparisons ==
    /\ ip_outcome # NoCall
           => ip_outcome = cjs_ipAddresses(log_level, ipRelease, request_ip, session_ip)
    /\ ua_outcome # NoCall
           => ua_outcome = cjs_userAgents(log_level, request_user_agent, session_user_agent)

\* every request in flight and the settled one are those of the legacy code
SameRequests ==
    /\ \A k \in 1..Len(pending) : SameRequest(pending[k])
    /\ Settled => SameRequest(sdk_outcome)

\* two outcomes that differ at most in own properties that hold undefined
SameButUndefinedOwn(a, b) ==
    /\ a.kind = b.kind
    /\ IF a.kind = "return" /\ "class" \in DOMAIN a.value
       THEN /\ "class" \in DOMAIN b.value
            /\ a.value.class = b.value.class
            /\ a.value.props = b.value.props
       ELSE a = b

====
